---- MODULE Spec2Model ----
(***************************************************************************)
(* Godot CNode: the message session (process_message, handle_call,         *)
(* handle_cast, send_reply) and the two connection drivers (main_loop and  *)
(* process_cnode_frame / CNodeServer::_process) of src/src/godot_cnode.cpp *)
(* with the thread wiring of src/src/register_types.cpp.                   *)
(* The term codec (bert_to_variant, variant_to_bert) and the message       *)
(* session are also run on their own, on values and buffers drawn from     *)
(* bounded sets, next to process_message of src/test/test_cnode.c.         *)
(* init_cnode and the life of the server thread (initialize_cnode_module,  *)
(* cnode_server_thread_impl, uninitialize_cnode_module) have a             *)
(* specification of their own, with main_loop reduced to its uses of       *)
(* listen_fd.                                                              *)
(*                                                                         *)
(* A received message is a sequence of wire tokens, one per term header    *)
(* the ei decoders consume; "index" is a position in that sequence.        *)
(***************************************************************************)
EXTENDS Integers, Sequences, FiniteSets, TLC

(* ---------------------------- bounds ---------------------------------- *)
\* number of peers that may connect during one behaviour
MaxConns == 2
\* number of frames the peers send during one behaviour
MaxFrames == 2
\* polls of a silent connection after which it counts as idle for good
MaxIdle == 2
\* members of the arrays handed to the codec
MaxElems == 2
\* terms in the buffers handed to the decoder
MaxTerms == 3

(* ------------------------ program constants --------------------------- *)
ERL_ERROR == -1
ERL_TICK == 0
ERL_MSG == 1
EBADF == 9
ENOPROTOOPT == 42
ETIMEDOUT == 60
ECONNABORTED == 53
EINTR == 4
EIO == 5
MaxRawMessages == 10
\* "char string_buf[256]"
StringBufSize == 256

NoFd == -1
ListenSocket == 0
NullPid == "null"

Conns == 1..MaxConns

(* ------------------------- wire tokens -------------------------------- *)
Ver == [k |-> "ver", s |-> "", n |-> 131]
Tup(n) == [k |-> "tuple", s |-> "", n |-> n]
Atom(a) == [k |-> "atom", s |-> a, n |-> 0]
Pid(p) == [k |-> "pid", s |-> p, n |-> 0]
Ref(r) == [k |-> "ref", s |-> r, n |-> 0]
\* ERL_INTEGER_EXT, and the two other tags of an integer on the wire:
\* ERL_SMALL_INTEGER_EXT (0..255) and ERL_SMALL_BIG_EXT
Long(i) == [k |-> "int", s |-> "", n |-> i]
SmallInt(i) == [k |-> "small_int", s |-> "", n |-> i]
Big(i) == [k |-> "big", s |-> "", n |-> i]
Flt(i) == [k |-> "float", s |-> "", n |-> i]
Str(t) == [k |-> "string", s |-> t, n |-> 0]
List(n) == [k |-> "list", s |-> "", n |-> n]
Nil == [k |-> "nil", s |-> "", n |-> 0]
MapHdr(n) == [k |-> "map", s |-> "", n |-> n]

\* kind of the term that starts at index, "eof" past the end of the buffer
KindAt(buf, index) == IF index >= 1 /\ index <= Len(buf) THEN buf[index].k ELSE "eof"

ei_decode_version(buf, index) ==
    IF KindAt(buf, index) = "ver"
    THEN [r |-> 0, index |-> index + 1, n |-> buf[index].n]
    ELSE [r |-> -1, index |-> index, n |-> 0]

ei_decode_tuple_header(buf, index) ==
    IF KindAt(buf, index) = "tuple"
    THEN [r |-> 0, index |-> index + 1, arity |-> buf[index].n]
    ELSE [r |-> -1, index |-> index, arity |-> 0]

ei_decode_list_header(buf, index) ==
    IF KindAt(buf, index) = "list"
    THEN [r |-> 0, index |-> index + 1, arity |-> buf[index].n]
    ELSE IF KindAt(buf, index) = "nil"
    THEN [r |-> 0, index |-> index + 1, arity |-> 0]
    ELSE [r |-> -1, index |-> index, arity |-> 0]

\* atom texts with a character beyond Latin-1: ei_decode_atom, which hands
\* out Latin-1, fails on them
WideTexts == {"<3BB>x"}

ei_decode_atom(buf, index) ==
    IF KindAt(buf, index) = "atom" /\ buf[index].s \notin WideTexts
    THEN [r |-> 0, index |-> index + 1, atom |-> buf[index].s]
    ELSE [r |-> -1, index |-> index, atom |-> ""]

ei_decode_pid(buf, index) ==
    IF KindAt(buf, index) = "pid"
    THEN [r |-> 0, index |-> index + 1, pid |-> buf[index].s]
    ELSE [r |-> -1, index |-> index, pid |-> NullPid]

ei_decode_ref(buf, index) ==
    IF KindAt(buf, index) = "ref"
    THEN [r |-> 0, index |-> index + 1, ref |-> buf[index].s]
    ELSE [r |-> -1, index |-> index, ref |-> ""]

\* what a local double or long holds that no decoder has written to, and
\* the values the stack may have left in it
UninitializedNumber == -1000000
StackNumbers == {0, 2}

\* a failed decoder leaves its output argument as it was
ei_decode_long(buf, index) ==
    IF KindAt(buf, index) \in {"int", "small_int", "big"}
    THEN [r |-> 0, index |-> index + 1, val |-> buf[index].n]
    ELSE [r |-> -1, index |-> index, val |-> UninitializedNumber]

ei_decode_double(buf, index) ==
    IF KindAt(buf, index) = "float"
    THEN [r |-> 0, index |-> index + 1, val |-> buf[index].n]
    ELSE [r |-> -1, index |-> index, val |-> UninitializedNumber]

ei_decode_string(buf, index) ==
    IF KindAt(buf, index) = "string"
    THEN [r |-> 0, index |-> index + 1, str |-> buf[index].s]
    ELSE [r |-> -1, index |-> index, str |-> ""]

\* the tag ei_x_encode_long picks for a value
ei_x_encode_long(n) ==
    IF 0 <= n /\ n < 256 THEN SmallInt(n)
    ELSE IF -(2^27) <= n /\ n < 2^27 THEN Long(n)
    ELSE Big(n)

\* a list header of arity 0 is written as the nil tag
ei_x_encode_list_header(n) == IF n = 0 THEN Nil ELSE List(n)
ei_x_encode_empty_list == Nil

(* ------------------------- dynamic values ------------------------------ *)
\* a Variant: type tag, scalar payload (s, n) and the members of an Array
Variant(t, s, n, a) == [type |-> t, s |-> s, n |-> n, a |-> a]
VNil == Variant("NIL", "", 0, <<>>)
VBool(b) == Variant("BOOL", "", IF b THEN 1 ELSE 0, <<>>)
VInt(i) == Variant("INT", "", i, <<>>)
VFloat(i) == Variant("FLOAT", "", i, <<>>)
VString(t) == Variant("STRING", t, 0, <<>>)
VArray(a) == Variant("ARRAY", "", 0, a)
VVector(t, a) == Variant(t, "", 0, a)

\* atom texts with a character outside ASCII, as ei_decode_atom leaves them
\* in "char atom[MAXATOMLEN]": one Latin-1 byte for the character
Latin1Texts == {"caf<E9>"}
\* String::utf8 on those bytes: a lone byte above 0x7F is no UTF-8 sequence
\* and comes out as the replacement character
String_utf8(bytes) == IF bytes \in Latin1Texts THEN "caf<FFFD>" ELSE bytes

\* "char atom[MAXATOMLEN]" as declared, before anything is written to it
Uninitialized == "<uninitialized>"
\* what such a buffer may hold when it is read
StackTexts == {"", "stale"}

\* Variant::operator int64_t: the integer of an INT, FLOAT or BOOL, else 0
AsInt64(v) == IF v.type \in {"INT", "FLOAT", "BOOL"} THEN v.n ELSE 0
\* Variant::operator String
AsString(v) == IF v.type = "STRING" THEN v.s ELSE ""

RECURSIVE bert_to_variant(_, _, _)
RECURSIVE decode_members(_, _, _, _)
\* the loop "for i < arity: arr.push_back(bert_to_variant(buf, index, true))"
RECURSIVE push_back(_, _, _, _)
decode_members(buf, index, arity, arr) ==
    IF arity <= 0 THEN [val |-> arr, index |-> index]
    ELSE push_back(buf, bert_to_variant(buf, index, TRUE), arity, arr)

\* "arr.push_back(elem)", then the members that remain
push_back(buf, elem, arity, arr) ==
    decode_members(buf, elem.index, arity - 1, Append(arr, elem.val))

\* the Array of a list, past its tail when that is the empty list
list_value(buf, m) ==
    [val |-> VArray(m.val),
     index |-> IF KindAt(buf, m.index) = "nil" THEN m.index + 1 ELSE m.index]

\* the Dictionary of {dictionary, N, K1, V1, ...}
dictionary_value(m) == [val |-> VVector("DICTIONARY", m.val), index |-> m.index]

bert_to_variant(buf, index, skip_version) ==
    LET v == ei_decode_version(buf, index)
        i0 == IF skip_version THEN index ELSE v.index
        type == KindAt(buf, i0)
    IN
    IF ~skip_version /\ v.r < 0 THEN [val |-> VNil, index |-> index]
    ELSE IF type = "eof" THEN [val |-> VNil, index |-> i0]
    ELSE IF type = "atom" THEN
        LET a == ei_decode_atom(buf, i0) IN
        IF a.r < 0 THEN [val |-> VString(Uninitialized), index |-> a.index]
        ELSE IF a.atom = "nil" THEN [val |-> VNil, index |-> a.index]
        ELSE IF a.atom = "true" THEN [val |-> VBool(TRUE), index |-> a.index]
        ELSE IF a.atom = "false" THEN [val |-> VBool(FALSE), index |-> a.index]
        ELSE [val |-> VString(String_utf8(a.atom)), index |-> a.index]
    ELSE IF type = "int" THEN
        LET d == ei_decode_long(buf, i0) IN [val |-> VInt(d.val), index |-> d.index]
    ELSE IF type = "float" THEN
        LET d == ei_decode_double(buf, i0) IN [val |-> VFloat(d.val), index |-> d.index]
    ELSE IF type = "string" THEN
        LET d == ei_decode_string(buf, i0) IN [val |-> VString(d.str), index |-> d.index]
    ELSE IF type = "list" THEN
        LET h == ei_decode_list_header(buf, i0)
        IN  list_value(buf, decode_members(buf, h.index, h.arity, <<>>))
    ELSE IF type = "tuple" THEN
        LET h == ei_decode_tuple_header(buf, i0)
            a == ei_decode_atom(buf, h.index)
            x1 == ei_decode_double(buf, a.index)
            x2 == ei_decode_double(buf, x1.index)
            x3 == ei_decode_double(buf, x2.index)
            x4 == ei_decode_double(buf, x3.index)
        IN
        IF h.arity > 0 /\ a.r = 0 /\ a.atom = "vector2" /\ h.arity = 3
        THEN [val |-> VVector("VECTOR2", <<x1.val, x2.val>>), index |-> x2.index]
        ELSE IF h.arity > 0 /\ a.r = 0 /\ a.atom = "vector3" /\ h.arity = 4
        THEN [val |-> VVector("VECTOR3", <<x1.val, x2.val, x3.val>>), index |-> x3.index]
        ELSE IF h.arity > 0 /\ a.r = 0 /\ a.atom = "color" /\ h.arity = 5
        THEN [val |-> VVector("COLOR", <<x1.val, x2.val, x3.val, x4.val>>), index |-> x4.index]
        ELSE IF h.arity > 0 /\ a.r = 0 /\ a.atom = "dictionary" /\ h.arity = 2
        THEN LET n == ei_decode_long(buf, a.index)
             IN  IF n.r < 0
                 THEN [val |-> Variant("DICTIONARY", "", UninitializedNumber, <<>>),
                       index |-> n.index]
                 ELSE dictionary_value(decode_members(buf, n.index, 2 * n.val, <<>>))
        ELSE [val |-> VNil, index |-> IF h.arity > 0 THEN a.index ELSE h.index]
    ELSE IF type = "nil" THEN [val |-> VNil, index |-> i0 + 1]
    ELSE [val |-> VNil, index |-> i0]

\* what one call of bert_to_variant touches: the indices at which it calls
\* a decoder, and the most bytes ei_decode_string copies into string_buf
\* (a string token carries its length in n where the length matters)
Touch(reads, wrote) == [reads |-> reads, wrote |-> wrote]
Join(t, u) ==
    Touch(t.reads \cup u.reads, IF t.wrote > u.wrote THEN t.wrote ELSE u.wrote)

RECURSIVE bert_touch(_, _, _)
RECURSIVE members_touch(_, _, _)
members_touch(buf, index, arity) ==
    IF arity <= 0 THEN Touch({}, 0)
    ELSE Join(bert_touch(buf, index, TRUE),
              members_touch(buf, bert_to_variant(buf, index, TRUE).index, arity - 1))

\* the reads of the branch "case ERL_SMALL_TUPLE_EXT" past the tuple header
tuple_touch(buf, h) ==
    LET a == ei_decode_atom(buf, h.index)
        x1 == ei_decode_double(buf, a.index)
        x2 == ei_decode_double(buf, x1.index)
        x3 == ei_decode_double(buf, x2.index)
        n == ei_decode_long(buf, a.index)
    IN
    IF h.arity <= 0 THEN Touch({}, 0)
    ELSE IF a.r < 0 THEN Touch({h.index}, 0)
    ELSE IF a.atom = "vector2" /\ h.arity = 3
    THEN Touch({h.index, a.index, x1.index}, 0)
    ELSE IF a.atom = "vector3" /\ h.arity = 4
    THEN Touch({h.index, a.index, x1.index, x2.index}, 0)
    ELSE IF a.atom = "color" /\ h.arity = 5
    THEN Touch({h.index, a.index, x1.index, x2.index, x3.index}, 0)
    ELSE IF a.atom = "dictionary" /\ h.arity = 2
    THEN Join(Touch({h.index, a.index}, 0), members_touch(buf, n.index, 2 * n.val))
    ELSE Touch({h.index}, 0)

bert_touch(buf, index, skip_version) ==
    LET v == ei_decode_version(buf, index)
        i0 == IF skip_version THEN index ELSE v.index
        type == KindAt(buf, i0)
        lh == ei_decode_list_header(buf, i0)
    IN
    IF ~skip_version /\ v.r < 0 THEN Touch({index}, 0)
    ELSE IF type = "string" THEN Touch({index, i0}, buf[i0].n + 1)
    ELSE IF type = "list"
    THEN Join(Touch({index, i0, decode_members(buf, lh.index, lh.arity, <<>>).index}, 0),
              members_touch(buf, lh.index, lh.arity))
    ELSE IF type = "tuple"
    THEN Join(Touch({index, i0}, 0), tuple_touch(buf, ei_decode_tuple_header(buf, i0)))
    ELSE Touch({index, i0}, 0)

RECURSIVE variant_to_bert(_)
RECURSIVE encode_members(_, _)
encode_members(arr, i) ==
    IF i > Len(arr) THEN <<>> ELSE variant_to_bert(arr[i]) \o encode_members(arr, i + 1)

\* the ei_x_encode_double calls for the components of a vector or color
encode_doubles(a) == [i \in 1..Len(a) |-> Flt(a[i])]

\* the tokens variant_to_bert appends to the reply buffer
variant_to_bert(var) ==
    IF var.type = "NIL" THEN <<Atom("nil")>>
    ELSE IF var.type = "BOOL" THEN <<Atom(IF var.n = 1 THEN "true" ELSE "false")>>
    ELSE IF var.type = "INT" THEN <<ei_x_encode_long(var.n)>>
    ELSE IF var.type = "FLOAT" THEN <<Flt(var.n)>>
    ELSE IF var.type = "STRING" THEN <<Str(var.s)>>
    ELSE IF var.type = "ARRAY"
    THEN <<ei_x_encode_list_header(Len(var.a))>> \o encode_members(var.a, 1)
         \o <<ei_x_encode_empty_list>>
    ELSE IF var.type = "VECTOR2"
    THEN <<Tup(3), Atom("vector2")>> \o encode_doubles(var.a)
    ELSE IF var.type = "VECTOR3"
    THEN <<Tup(4), Atom("vector3")>> \o encode_doubles(var.a)
    ELSE IF var.type = "COLOR"
    THEN <<Tup(5), Atom("color")>> \o encode_doubles(var.a)
    ELSE IF var.type = "DICTIONARY"
    THEN <<MapHdr(Len(var.a) \div 2)>> \o encode_members(var.a, 1)
    ELSE IF var.type = "OBJECT"
    THEN IF var.n = 0 THEN <<Atom("nil")>>
         ELSE <<Tup(3), Atom("object"), Str(var.s), ei_x_encode_long(var.n)>>
    ELSE <<Tup(2), Atom("unsupported"), Str(var.type)>>

(* ------------------------------ host ----------------------------------- *)
\* instance ids that ObjectDB::get_instance resolves to a live object
LiveObjects == {1}
\* the value a host method or property hands back
HostResults == {VString("pong")}
thisnodename == "godot@127.0.0.1"

(* ------------------------- observable events --------------------------- *)
\* one entry of a driver's history: a library or host call the code made
Ev(op, fd, to, buf, ok) == [op |-> op, fd |-> fd, to |-> to, buf |-> buf, ok |-> ok]

\* a faulty variant: the reason goes out as an atom
ErrorReply_atom(reason) == <<Tup(2), Atom("error"), Atom(reason)>>

ErrorReply(reason) == <<Tup(2), Atom("error"), Str(reason)>>

(* --------------------------- send_reply -------------------------------- *)
\* a faulty variant: the reply tuple is led by a fixed atom, not by the Tag
send_reply_untagged(x, fd, to_pid, tag_ref, sendOk) ==
    IF fd < 0 \/ to_pid = NullPid THEN <<>>
    ELSE <<Ev("send_reply", fd, to_pid, <<Ver, Tup(2), Atom("reply")>> \o x, sendOk)>>

\* x: the encoded reply; sendOk: whether ei_send succeeds on this fd
send_reply(x, fd, to_pid, tag_ref, sendOk) ==
    IF fd < 0 THEN <<>>
    ELSE IF to_pid = NullPid THEN <<>>
    ELSE LET gen_reply == <<Ver, Tup(2), Ref(tag_ref)>> \o x
         IN  <<Ev("send_reply", fd, to_pid, gen_reply, sendOk)>>

(* ---------------------------- dispatch --------------------------------- *)
\* "Decode arguments (remaining elements in Request tuple)"
\* "if (args_variant.get_type() == Variant::ARRAY) ... else args.push_back(args_variant)"
args_array(args_variant) ==
    IF args_variant.type = "ARRAY" THEN args_variant.a ELSE <<args_variant>>

decode_args(buf, index, request_arity) ==
    IF request_arity > 2 THEN args_array(bert_to_variant(buf, index, TRUE).val) ELSE <<>>

method_args(args) ==
    IF Len(args) > 2 /\ args[3].type = "ARRAY" THEN args[3].a ELSE <<>>

\* the routing of handle_call: host operations performed and reply encoded
call_route(module, function, args, fd, result) ==
    IF module = "godot" THEN
        IF function = "call_method" THEN
            IF Len(args) >= 2 THEN
                IF AsInt64(args[1]) \in LiveObjects
                THEN [host |-> <<Ev("callv", fd, AsString(args[2]), <<>>, TRUE)>>,
                      reply |-> variant_to_bert(result)]
                ELSE [host |-> <<>>, reply |-> ErrorReply("object_not_found")]
            ELSE [host |-> <<>>, reply |-> ErrorReply("insufficient_arguments")]
        ELSE IF function = "get_property" THEN
            IF Len(args) >= 2 THEN
                IF AsInt64(args[1]) \in LiveObjects
                THEN [host |-> <<Ev("get", fd, AsString(args[2]), <<>>, TRUE)>>,
                      reply |-> variant_to_bert(result)]
                ELSE [host |-> <<>>, reply |-> ErrorReply("object_not_found")]
            ELSE [host |-> <<>>, reply |-> ErrorReply("insufficient_arguments")]
        ELSE IF function = "set_property" THEN
            IF Len(args) >= 3 THEN
                IF AsInt64(args[1]) \in LiveObjects
                THEN [host |-> <<Ev("set", fd, AsString(args[2]), <<>>, TRUE)>>,
                      reply |-> <<Atom("ok")>>]
                ELSE [host |-> <<>>, reply |-> ErrorReply("object_not_found")]
            ELSE [host |-> <<>>, reply |-> ErrorReply("insufficient_arguments")]
        ELSE [host |-> <<>>, reply |-> ErrorReply("unknown_function")]
    ELSE IF module = "erlang" THEN
        IF function = "node" THEN [host |-> <<>>, reply |-> <<Atom(thisnodename)>>]
        ELSE IF function = "nodes"
        THEN [host |-> <<>>, reply |-> <<ei_x_encode_list_header(0), ei_x_encode_empty_list>>]
        ELSE [host |-> <<>>, reply |-> ErrorReply("unknown_function")]
    ELSE [host |-> <<>>, reply |-> ErrorReply("unknown_module")]

\* the end of handle_call: "send_reply(&reply, fd, from_pid, tag_ref); return 0"
send_routed(route, fd, from_pid, tag_ref, sendOk) ==
    [ret |-> 0, ev |-> route.host \o send_reply(route.reply, fd, from_pid, tag_ref, sendOk)]

\* a faulty variant: the reply of a dispatched call is left unsent
handle_call_deferred(buf, index, fd, from_pid, tag_ref, env) ==
    LET h == ei_decode_tuple_header(buf, index)
        m == ei_decode_atom(buf, h.index)
        f == ei_decode_atom(buf, m.index)
        args == decode_args(buf, f.index, h.arity)
    IN
    IF fd < 0 THEN [ret |-> -1, ev |-> <<>>]
    ELSE IF h.r < 0 \/ h.arity < 2
    THEN [ret |-> -1,
          ev |-> send_reply(ErrorReply("invalid_request_format"), fd, from_pid, tag_ref, env.sendOk)]
    ELSE IF m.r < 0
    THEN [ret |-> -1,
          ev |-> send_reply(ErrorReply("invalid_module"), fd, from_pid, tag_ref, env.sendOk)]
    ELSE IF f.r < 0
    THEN [ret |-> -1,
          ev |-> send_reply(ErrorReply("invalid_function"), fd, from_pid, tag_ref, env.sendOk)]
    ELSE [ret |-> 0, ev |-> call_route(m.atom, f.atom, args, fd, env.result).host]

\* env: [sendOk |-> ei_send succeeds, result |-> what the host hands back]
handle_call(buf, index, fd, from_pid, tag_ref, env) ==
    LET h == ei_decode_tuple_header(buf, index)
        m == ei_decode_atom(buf, h.index)
        f == ei_decode_atom(buf, m.index)
        args == decode_args(buf, f.index, h.arity)
    IN
    IF fd < 0 THEN [ret |-> -1, ev |-> <<>>]
    ELSE IF h.r < 0 \/ h.arity < 2
    THEN [ret |-> -1,
          ev |-> send_reply(ErrorReply("invalid_request_format"), fd, from_pid, tag_ref, env.sendOk)]
    ELSE IF m.r < 0
    THEN [ret |-> -1,
          ev |-> send_reply(ErrorReply("invalid_module"), fd, from_pid, tag_ref, env.sendOk)]
    ELSE IF f.r < 0
    THEN [ret |-> -1,
          ev |-> send_reply(ErrorReply("invalid_function"), fd, from_pid, tag_ref, env.sendOk)]
    ELSE send_routed(call_route(m.atom, f.atom, args, fd, env.result),
                     fd, from_pid, tag_ref, env.sendOk)

\* the routing of handle_cast: host operations performed, nothing encoded
cast_route(module, function, args, fd) ==
    IF module = "erlang" THEN <<>>
    ELSE IF module = "godot" THEN
        IF function = "call_method" THEN
            IF Len(args) >= 2 /\ AsInt64(args[1]) \in LiveObjects
            THEN <<Ev("callv", fd, AsString(args[2]), <<>>, TRUE)>>
            ELSE <<>>
        ELSE IF function = "set_property" THEN
            IF Len(args) >= 3 /\ AsInt64(args[1]) \in LiveObjects
            THEN <<Ev("set", fd, AsString(args[2]), <<>>, TRUE)>>
            ELSE <<>>
        ELSE <<>>
    ELSE <<>>

\* a faulty variant: a dispatched cast is acknowledged the way a call is
handle_cast_acked(buf, index, fd) ==
    LET h == ei_decode_tuple_header(buf, index)
        m == ei_decode_atom(buf, h.index)
        f == ei_decode_atom(buf, m.index)
        args == decode_args(buf, f.index, h.arity)
    IN
    IF h.r < 0 \/ h.arity < 2 THEN [ret |-> -1, ev |-> <<>>]
    ELSE IF m.r < 0 THEN [ret |-> -1, ev |-> <<>>]
    ELSE IF f.r < 0 THEN [ret |-> -1, ev |-> <<>>]
    ELSE [ret |-> 0,
          ev |-> cast_route(m.atom, f.atom, args, fd)
                 \o <<Ev("send_reply", fd, "p1", <<Ver, Atom("ok")>>, TRUE)>>]

handle_cast(buf, index, fd) ==
    LET h == ei_decode_tuple_header(buf, index)
        m == ei_decode_atom(buf, h.index)
        f == ei_decode_atom(buf, m.index)
        args == decode_args(buf, f.index, h.arity)
    IN
    IF h.r < 0 \/ h.arity < 2 THEN [ret |-> -1, ev |-> <<>>]
    ELSE IF m.r < 0 THEN [ret |-> -1, ev |-> <<>>]
    ELSE IF f.r < 0 THEN [ret |-> -1, ev |-> <<>>]
    ELSE [ret |-> 0, ev |-> cast_route(m.atom, f.atom, args, fd)]

(* -------------------------- process_message ---------------------------- *)
\* "{From, Tag}": tuple header of arity 2, a pid, a reference
decode_from(buf, index) ==
    LET h == ei_decode_tuple_header(buf, index)
        p == ei_decode_pid(buf, h.index)
        t == ei_decode_ref(buf, p.index)
    IN  [r |-> IF h.r < 0 \/ h.arity # 2 \/ p.r < 0 \/ t.r < 0 THEN -1 ELSE 0,
         index |-> t.index, pid |-> p.pid, ref |-> t.ref]

\* a faulty variant: a version marker is stepped over whether it is there or not
after_version_always(v, index) == index + 1

\* "if (ei_decode_version(buf, index, &version) < 0) *index = saved_index;
\*  else saved_index = *index": the marker is skipped when present
after_version(v, index) == IF v.r < 0 THEN index ELSE v.index

\* a faulty variant: the relayed call is answered to the envelope's sender
rex_reply_to_sender(rpc_from_pid, from_pid) == rpc_from_pid

\* "handle_call(buf, index, fd, &from_pid, &tag_ref)" of the rex branch:
\* rpc_from_pid is decoded and not used again
rex_reply_to(rpc_from_pid, from_pid) == from_pid

\* a faulty variant: the plain tuple is handed on from past its header
plain_index_past_header(saved_index, tuple_start_index) == tuple_start_index

\* "*index = saved_index": back to the tuple header, after the version
plain_index(saved_index, tuple_start_index) == saved_index

process_message(buf, index, fd, env) ==
    LET v == ei_decode_version(buf, index)
        saved_index == after_version(v, index)
        h == ei_decode_tuple_header(buf, saved_index)
        a == ei_decode_atom(buf, h.index)
    IN
    IF fd < 0 THEN [ret |-> -1, ev |-> <<>>]
    ELSE IF h.r < 0 THEN [ret |-> -1, ev |-> <<>>]
    ELSE IF a.r < 0 THEN [ret |-> -1, ev |-> <<>>]
    ELSE IF a.atom = "$gen_call" THEN
        LET from == decode_from(buf, a.index) IN
        IF from.r < 0 THEN [ret |-> -1, ev |-> <<>>]
        ELSE handle_call(buf, from.index, fd, from.pid, from.ref, env)
    ELSE IF a.atom = "$gen_cast" THEN handle_cast(buf, a.index, fd)
    ELSE IF a.atom = "rex" THEN
        LET rpc_from == ei_decode_pid(buf, a.index)
            rh == ei_decode_tuple_header(buf, rpc_from.index)
            g == ei_decode_atom(buf, rh.index)
            from == decode_from(buf, g.index)
        IN
        IF rpc_from.r < 0 THEN [ret |-> -1, ev |-> <<>>]
        ELSE IF rh.r < 0 THEN [ret |-> -1, ev |-> <<>>]
        ELSE IF g.r < 0 \/ g.atom # "$gen_call" THEN [ret |-> -1, ev |-> <<>>]
        ELSE IF from.r < 0 THEN [ret |-> -1, ev |-> <<>>]
        ELSE handle_call(buf, from.index, fd, rex_reply_to(rpc_from.pid, from.pid),
                         from.ref, env)
    ELSE handle_cast(buf, plain_index(saved_index, h.index), fd)

\* the indices process_message decodes at before it hands the message on:
\* the version, the tuple header, the leading atom
process_touch(buf, index) ==
    LET v == ei_decode_version(buf, index)
        saved_index == IF v.r < 0 THEN index ELSE v.index
        h == ei_decode_tuple_header(buf, saved_index)
    IN  {index, saved_index} \cup (IF h.r < 0 THEN {} ELSE {h.index})

(* --------------------- the standalone test CNode ----------------------- *)
\* test_cnode.c, handle_call: the reply to a Request whose names decoded
test_call_reply(module, function, buf, index, request_arity) ==
    LET l == ei_decode_long(buf, index)
        str == ei_decode_string(buf, index)
    IN
    IF module = "erlang" THEN
        IF function = "node" THEN <<Atom(thisnodename)>>
        ELSE IF function = "nodes"
        THEN <<ei_x_encode_list_header(0), ei_x_encode_empty_list>>
        ELSE ErrorReply("unknown_function")
    ELSE IF module = "test" THEN
        IF function = "ping" THEN <<Atom("pong")>>
        ELSE IF function = "echo" THEN
            IF request_arity > 2 /\ l.r = 0 THEN <<ei_x_encode_long(l.val)>>
            ELSE IF request_arity > 2 /\ str.r = 0 THEN <<Str(str.str)>>
            ELSE <<Atom("echo")>>
        ELSE ErrorReply("unknown_function")
    ELSE ErrorReply("unknown_module")

\* test_cnode.c, handle_call
test_handle_call(buf, index, fd, from_pid, tag_ref, env) ==
    LET h == ei_decode_tuple_header(buf, index)
        m == ei_decode_atom(buf, h.index)
        f == ei_decode_atom(buf, m.index)
    IN
    IF h.r < 0 \/ h.arity < 2
    THEN [ret |-> -1,
          ev |-> send_reply(ErrorReply("invalid_request_format"), fd, from_pid, tag_ref, env.sendOk)]
    ELSE IF m.r < 0
    THEN [ret |-> -1,
          ev |-> send_reply(ErrorReply("invalid_module"), fd, from_pid, tag_ref, env.sendOk)]
    ELSE IF f.r < 0
    THEN [ret |-> -1,
          ev |-> send_reply(ErrorReply("invalid_function"), fd, from_pid, tag_ref, env.sendOk)]
    ELSE [ret |-> 0,
          ev |-> send_reply(test_call_reply(m.atom, f.atom, buf, f.index, h.arity),
                            fd, from_pid, tag_ref, env.sendOk)]

\* test_cnode.c, handle_cast: the names are decoded, nothing is sent
test_handle_cast(buf, index) ==
    LET h == ei_decode_tuple_header(buf, index)
        m == ei_decode_atom(buf, h.index)
        f == ei_decode_atom(buf, m.index)
    IN  [ret |-> IF h.r < 0 \/ h.arity < 2 \/ m.r < 0 \/ f.r < 0 THEN -1 ELSE 0, ev |-> <<>>]

\* test_cnode.c, process_message: tuple_start_index is taken after the
\* tuple header, and the plain branch hands that index to handle_cast
test_process_message(buf, index, fd, env) ==
    LET v == ei_decode_version(buf, index)
        saved_index == IF v.r < 0 THEN index ELSE v.index
        h == ei_decode_tuple_header(buf, saved_index)
        tuple_start_index == h.index
        a == ei_decode_atom(buf, h.index)
        from == decode_from(buf, a.index)
        rpc_from == ei_decode_pid(buf, a.index)
        from_atom == ei_decode_atom(buf, a.index)
        request == ei_decode_tuple_header(buf, IF rpc_from.r < 0 THEN from_atom.index
                                                ELSE rpc_from.index)
        gen_call_atom == ei_decode_atom(buf, request.index)
        inner == decode_from(buf, gen_call_atom.index)
    IN
    IF h.r < 0 THEN [ret |-> -1, ev |-> <<>>]
    ELSE IF a.r < 0 THEN [ret |-> -1, ev |-> <<>>]
    ELSE IF a.atom = "$gen_call" THEN
        IF from.r < 0 THEN [ret |-> -1, ev |-> <<>>]
        ELSE test_handle_call(buf, from.index, fd, from.pid, from.ref, env)
    ELSE IF a.atom = "$gen_cast" THEN test_handle_cast(buf, a.index)
    ELSE IF a.atom = "rex" THEN
        IF rpc_from.r < 0 /\ from_atom.r < 0 THEN [ret |-> -1, ev |-> <<>>]
        ELSE IF request.r < 0 THEN [ret |-> -1, ev |-> <<>>]
        ELSE IF gen_call_atom.r < 0 \/ gen_call_atom.atom # "$gen_call"
        THEN [ret |-> -1, ev |-> <<>>]
        ELSE IF inner.r < 0 THEN [ret |-> -1, ev |-> <<>>]
        ELSE test_handle_call(buf, inner.index, fd, inner.pid, inner.ref, env)
    ELSE test_handle_cast(buf, tuple_start_index)

(* ------------------------------ frames --------------------------------- *)
Request(module, function, args) == <<Tup(3), Atom(module), Atom(function)>> \o args
Request2(module, function) == <<Tup(2), Atom(module), Atom(function)>>
GenCall(from, tag, request) ==
    <<Ver, Tup(3), Atom("$gen_call"), Tup(2), Pid(from), Ref(tag)>> \o request
GenCast(request) == <<Ver, Tup(2), Atom("$gen_cast")>> \o request
Rex(sender, inner) == <<Ver, Tup(3), Atom("rex"), Pid(sender)>> \o Tail(inner)
\* the relay envelope with any term in the sender position
RexFrom(sender, inner) == <<Ver, Tup(3), Atom("rex"), sender>> \o Tail(inner)
Plain(request) == <<Ver>> \o request
\* a keepalive: the zero-length frame ei_receive_msg answers with ERL_TICK
Tick == <<>>
\* end of file on the socket, after the last frame the peer sent
Eof == <<[k |-> "eof", s |-> "", n |-> 0]>>

CallOk == GenCall("p1", "t1", Request("godot", "call_method", <<List(2), Long(1), Str("m"), Nil>>))
CallUnknownModule == GenCall("p2", "t2", Request2("nomod", "f"))
CallNoObject == GenCall("p1", "t2", Request("godot", "get_property", <<List(2), Long(9), Str("x"), Nil>>))
CallFewArgs == GenCall("p2", "t1", Request("godot", "set_property", <<Nil>>))
CallBadRequest == GenCall("p2", "t1", <<Long(5)>>)
CallBadModule == GenCall("p1", "t2", <<Tup(2), Long(5), Atom("f")>>)
CallBadFunction == GenCall("p2", "t2", <<Tup(2), Atom("godot"), Long(5)>>)
CallBadFrom == <<Ver, Tup(3), Atom("$gen_call"), Long(7)>> \o Request2("erlang", "node")
RexOk == Rex("p2", GenCall("p1", "t1", Request("erlang", "nodes", <<Nil>>)))
RexNotCall == Rex("p2", Plain(Request2("erlang", "node")))
CastOk == GenCast(Request("godot", "set_property", <<List(3), Long(1), Str("p"), Long(5), Nil>>))
CastNoObject == GenCast(Request("godot", "call_method", <<List(2), Long(9), Str("m"), Nil>>))
CastBadRequest == GenCast(<<Long(5)>>)
PlainUnknownModule == Plain(Request2("nomod", "f"))
Garbage == <<Ver, Long(5)>>

\* the frames a peer may send
Frames == {CallOk, CallUnknownModule, CallNoObject, CallFewArgs, CallBadRequest,
           CallBadModule, CallBadFunction, CallBadFrom, RexOk, RexNotCall, CastOk, CastNoObject, CastBadRequest,
           PlainUnknownModule, Garbage, Tick}

(* ------------------------------ init_cnode ----------------------------- *)
\* "strlen(nodename) > 256"
NodenameMax == 256
\* ei.h
MAXATOMLEN == 256
EI_MAXHOSTNAMELEN == 254
MAXNODELEN == 256
ECONNREFUSED == 61

\* a C string by what init_cnode looks at: whether the pointer is null, the
\* characters before the first '@', whether there is an '@', the characters
\* after it
CString(null, alive, at, host) ==
    [null |-> null, alive |-> alive, at |-> at, host |-> host]
NullString == CString(TRUE, 0, FALSE, 0)
Text(len) == CString(FALSE, len, FALSE, 0)
NodeAt(alive, host) == CString(FALSE, alive, TRUE, host)
strlen(s) == s.alive + (IF s.at THEN 1 ELSE 0) + s.host

\* what the library and the system answer during one init_cnode: the result
\* of ei_connect_xinit_ussi, the socket of ei_listen, the errno of ei_publish
InitEnvs ==
    [xinit : {0, -1}, listen : {ListenSocket, -1},
     publish : {0, ECONNREFUSED, ENOPROTOOPT, EIO}]

\* a faulty variant: no limit on the length of the node name
nodename_unbounded(nodename) == FALSE

\* "Validate nodename length"
nodename_too_long(nodename) == strlen(nodename) > NodenameMax

\* a failed ei_publish that init_cnode goes on after
publish_tolerated(errno) == errno \in {ECONNREFUSED, 61, 42, ENOPROTOOPT}

\* init_cnode(nodename, cookie) with listen_fd holding before: its return
\* value, the library and socket calls it made, listen_fd afterwards, and the
\* socket it created ("none" when it created none)
init_cnode(nodename, cookie, env, before) ==
    LET left(calls, sock) ==
            [ret |-> -1, calls |-> calls, listen_fd |-> before, sock |-> sock]
        started == <<"ei_init", "ei_connect_xinit_ussi">>
    IN
    IF nodename.null \/ strlen(nodename) = 0 THEN left(<<>>, "none")
    ELSE IF ~nodename.at THEN left(<<>>, "none")
    ELSE IF nodename_too_long(nodename) THEN left(<<>>, "none")
    ELSE IF cookie.null \/ strlen(cookie) = 0 THEN left(<<>>, "none")
    ELSE IF strlen(cookie) > MAXATOMLEN THEN left(<<>>, "none")
    ELSE IF nodename.host >= EI_MAXHOSTNAMELEN + 1 THEN left(<<"ei_init">>, "none")
    ELSE IF strlen(nodename) >= MAXNODELEN + 1 THEN left(<<"ei_init">>, "none")
    ELSE IF env.xinit < 0 THEN left(started, "none")
    ELSE IF env.listen < 0 THEN left(started \o <<"ei_listen">>, "none")
    ELSE IF env.publish # 0 /\ ~publish_tolerated(env.publish)
    THEN left(started \o <<"ei_listen", "ei_publish", "close">>, "closed")
    ELSE [ret |-> 0, calls |-> started \o <<"ei_listen", "ei_publish">>,
          listen_fd |-> env.listen, sock |-> "open"]

\* one call of init_cnode as the caller sees it
Call(nodename, cookie, before, r) ==
    [nodename |-> nodename, cookie |-> cookie, before |-> before, ret |-> r.ret,
     calls |-> r.calls, listen_fd |-> r.listen_fd]
NoCall == Call(NullString, NullString, -1, [ret |-> 1, calls |-> <<>>, listen_fd |-> -1])

\* the module at rest: no call of init_cnode made, no thread started
NoLife ==
    [phase |-> "off", nodename |-> NullString, cookie |-> NullString, call |-> NoCall,
     options |-> <<>>, i |-> 1, main |-> "boot", cnode_thread |-> 0,
     cnode_running |-> FALSE, tpc |-> "none", listen_fd |-> -1, sock |-> "none",
     passed |-> {}, alive |-> FALSE, joined |-> FALSE]

(* ------------------------------- state --------------------------------- *)
VARIABLES
    mode,        \* which driver serves: "run" (main_loop), "step", or "both" side by side
    listen_fd,   \* per driver: the listening socket, -1 once closed
    conn,        \* per driver and peer: "none", "pending", "open", "closed", "refused"
    hsOk,        \* per peer: whether its handshake with ei_accept succeeds
    wire,        \* per driver and peer: what the peer sent and the driver has not read,
                 \* ending in Eof once the peer has closed its end
    nsent,       \* frames sent so far by all peers
    menu,        \* the frames the peers of this behaviour choose from
    faults,      \* whether select, ei_receive_msg and ei_send may fail on a sound peer
    current_fd,  \* process_cnode_frame: static current_fd
    initialized, \* CNodeServer::initialized
    pc,          \* main_loop: "top", "recv", "more", "exit"
    fd,          \* main_loop: local fd
    log,         \* per driver: history of library and host calls
    stalled,     \* per peer: it has connected and not yet sent its handshake
    caller,      \* who is inside process_cnode_frame: "none", "node", "direct"
    result,      \* what the last call of process_cnode_frame returned
    idle,        \* consecutive calls that found no data on current_fd
    codec,       \* the value or buffer handed to the codec and what came out
    xbuf,        \* per driver: the receive buffer x, "none", "allocated" or "freed"
    life         \* the server thread from its start to its join

vars == <<mode, listen_fd, conn, hsOk, wire, nsent, menu, faults, current_fd,
          initialized, pc, fd, log, stalled, caller, result, idle, codec, xbuf, life>>

Drivers == {"run", "step"}
Active == IF mode = "both" THEN Drivers ELSE {mode}

InitCommon ==
    /\ listen_fd = [d \in Drivers |-> ListenSocket]
    /\ conn = [d \in Drivers |-> [c \in Conns |-> "none"]]
    /\ hsOk = [c \in Conns |-> TRUE]
    /\ wire = [d \in Drivers |-> [c \in Conns |-> <<>>]]
    /\ nsent = 0
    /\ current_fd = NoFd
    /\ initialized = TRUE
    /\ pc = "top"
    /\ fd = NoFd
    /\ log = [d \in Drivers |-> <<>>]
    /\ stalled = [c \in Conns |-> FALSE]
    /\ caller = "none"
    /\ result = 1
    /\ idle = 0
    /\ xbuf = [d \in Drivers |-> IF d = "run" THEN "allocated" ELSE "none"]

\* a peer mixes well-formed calls with one other kind of frame
OtherFrames == Frames \ {CallOk}
Menus == {{CallOk, f} : f \in OtherFrames}

\* the codec at rest, while the drivers run
NoCodec ==
    [phase |-> "off", value |-> VNil, buf |-> <<>>, out |-> VNil, index |-> 0,
     reads |-> {}, wrote |-> 0, ret |-> 0, ev |-> <<>>]

Init ==
    mode \in {"run", "step"} /\ menu \in Menus /\ faults = TRUE /\ codec = NoCodec
    /\ life = NoLife
    /\ InitCommon

(* ------------------------------- peers --------------------------------- *)
Connected(c) == \E d \in Active : conn[d][c] # "none"

\* what the peers of one behaviour send in all: one peer up to MaxFrames
\* frames, several peers one frame between them
FrameQuota(peers) == IF peers > 1 THEN 1 ELSE MaxFrames

\* peer c connects to the listening socket; ok: it holds the right cookie
\* stall: it holds back its handshake for now
PeerConnect(c, ok, stall) ==
    /\ ~Connected(c)
    /\ nsent <= FrameQuota(c)
    /\ \A c2 \in Conns : c2 < c => Connected(c2)
    /\ \E d \in Active : listen_fd[d] >= 0
    /\ conn' = [d \in Drivers |->
                  IF d \in Active /\ listen_fd[d] >= 0
                  THEN [conn[d] EXCEPT ![c] = "pending"] ELSE conn[d]]
    /\ hsOk' = [hsOk EXCEPT ![c] = ok]
    /\ stalled' = [stalled EXCEPT ![c] = stall]
    /\ UNCHANGED <<mode, menu, faults, codec, life, xbuf, listen_fd, wire, nsent, current_fd,
                   initialized, pc, fd, log, caller, result, idle>>

\* peer c sends the handshake it held back
PeerHandshake(c) ==
    /\ stalled[c]
    /\ stalled' = [stalled EXCEPT ![c] = FALSE]
    /\ UNCHANGED <<mode, menu, faults, codec, life, xbuf, listen_fd, conn, hsOk, wire, nsent,
                   current_fd, initialized, pc, fd, log, caller, result, idle>>

\* the peer's end of connection c is still writable as seen from driver d
Writable(d, c) ==
    /\ conn[d][c] \in {"pending", "open"}
    /\ ~stalled[c]
    /\ IF wire[d][c] = <<>> THEN TRUE ELSE wire[d][c][Len(wire[d][c])] # Eof

\* driver d is about to look at connection c: it is selecting on it, or its
\* next accept takes it
Watching(d, c) ==
    IF d = "run" THEN conn[d][c] = "open" /\ fd = c /\ pc \in {"recv", "more"}
    ELSE IF current_fd >= 0 THEN current_fd = c
    ELSE conn[d][c] = "pending" /\ \A c2 \in Conns : conn[d][c2] = "pending" => c <= c2

\* peer c writes frame f; the bytes wait in the socket until the driver reads.
\* A driver cannot tell when bytes it finds were written, so every write is
\* placed after the driver's last step before it looks at the connection.
PeerSend(c, f) ==
    /\ nsent < FrameQuota(Cardinality({c2 \in Conns : Connected(c2)}))
    /\ \A d \in Active : Writable(d, c)
    /\ \E d \in Active : Watching(d, c)
    /\ wire' = [d \in Drivers |->
                  IF Writable(d, c) THEN [wire[d] EXCEPT ![c] = Append(@, f)] ELSE wire[d]]
    /\ nsent' = nsent + 1
    /\ UNCHANGED <<mode, menu, faults, codec, life, xbuf, listen_fd, conn, hsOk, current_fd,
                   initialized, pc, fd, log, stalled, caller, result, idle>>

\* peer c closes its end: end of file follows whatever it has sent
PeerClose(c) ==
    /\ \A d \in Active : Writable(d, c)
    /\ \E d \in Active : Watching(d, c)
    /\ wire' = [d \in Drivers |->
                  IF Writable(d, c) THEN [wire[d] EXCEPT ![c] = Append(@, Eof)] ELSE wire[d]]
    /\ UNCHANGED <<mode, menu, faults, codec, life, xbuf, listen_fd, conn, hsOk, nsent, current_fd,
                   initialized, pc, fd, log, stalled, caller, result, idle>>

(* --------------------------- the transport ----------------------------- *)
Pending(d) == {c \in Conns : conn[d][c] = "pending"}
NextPending(d) == CHOOSE c \in Pending(d) : \A c2 \in Pending(d) : c <= c2
\* select() reports fd readable: unread data, or end of file
Readable(d, c) == wire[d][c] # <<>>
\* the peer at the head of the accept queue holds back its handshake:
\* ei_accept, entered once select() reports the listening socket, waits for it
Stalled(d) == Pending(d) # {} /\ stalled[NextPending(d)]

\* errno values left behind by a failed ei_receive_msg
RecvErrnos == {EIO, ENOPROTOOPT, ETIMEDOUT}
\* errno values left behind by ei_accept when the handshake fails
AcceptErrnos == {ECONNABORTED, EINTR, EIO}

\* what ei_receive_msg may answer on a readable socket holding frames w:
\* x is the message left in the buffer (x.index > 0 iff x # <<>>)
RecvOutcomes(w) ==
    IF Head(w) = Eof
    THEN {[res |-> ERL_ERROR, errno |-> e, x |-> <<>>, rest |-> w] : e \in RecvErrnos}
    ELSE IF Head(w) = Tick
    THEN {[res |-> ERL_TICK, errno |-> 0, x |-> <<>>, rest |-> Tail(w)]}
    ELSE {[res |-> ERL_MSG, errno |-> 0, x |-> Head(w), rest |-> Tail(w)]}
         \cup (IF faults
               THEN {[res |-> ERL_ERROR, errno |-> e, x |-> Head(w), rest |-> Tail(w)] :
                        e \in RecvErrnos}
                    \cup {[res |-> ERL_ERROR, errno |-> e, x |-> <<>>, rest |-> w] :
                             e \in RecvErrnos}
               ELSE {})

\* what the dispatch and the reply write may meet
Envs == [sendOk : IF faults THEN BOOLEAN ELSE {TRUE}, result : HostResults]

(* ------------------------ shared driver steps -------------------------- *)
Recv(c, x) == Ev("recv", c, "", x, TRUE)
Accepted(c) == Ev("accepted", c, "", <<>>, TRUE)
Closed(c) == Ev("close", c, "", <<>>, TRUE)

\* a faulty variant: the handshake lets every peer through
ei_accept_unchecked(c) == {[fd |-> c, errno |-> 0]}

\* ei_accept on pending peer c: the connection's fd, or -1 with an errno
ei_accept(c) ==
    IF hsOk[c] THEN {[fd |-> c, errno |-> 0]}
    ELSE {[fd |-> -1, errno |-> e] : e \in AcceptErrnos}

\* a faulty variant: only values below -1 count as failure
accept_failed_below(afd) == afd < -1

\* the test "if (fd < 0)" / "if (fd >= 0)" on the value of ei_accept
accept_failed(afd) == afd < 0

\* the receive buffer of driver d after ei_x_free(&x), and after ei_x_new(&x)
ei_x_free(d) == [xbuf EXCEPT ![d] = "freed"]
ei_x_new(d) == [xbuf EXCEPT ![d] = "allocated"]

\* what the driver writes back: state of c, unread frames of c, history
Commit(d, c, status, w, evs) ==
    /\ conn' = [conn EXCEPT ![d][c] = status]
    /\ wire' = [wire EXCEPT ![d][c] = IF status = "open" THEN w ELSE <<>>]
    /\ log' = [log EXCEPT ![d] = @ \o evs]

(* ------------------------------ main_loop ------------------------------ *)
\* the raw-read fallback: 0x83 followed by a tuple tag marks a message start;
\* every frame holds a control tuple and then the message itself
ControlMessage == <<Ver, Tup(3), Long(2), Atom(""), Pid("self")>>
FrameMarkers(f) ==
    IF f = Tick THEN <<>>
    ELSE <<[ctl |-> TRUE, buf |-> ControlMessage]>>
         \o (IF KindAt(f, 1) = "ver" /\ KindAt(f, 2) = "tuple"
             THEN <<[ctl |-> FALSE, buf |-> f]>> ELSE <<>>)

RECURSIVE msg_starts(_)
msg_starts(frames) ==
    IF frames = <<>> THEN <<>> ELSE FrameMarkers(Head(frames)) \o msg_starts(Tail(frames))

\* one round of "Process each message found"
raw_message(buf, c, env) ==
    LET v == ei_decode_version(buf, 1)
        h == ei_decode_tuple_header(buf, v.index)
        a == ei_decode_atom(buf, h.index)
        from == decode_from(buf, a.index)
    IN
    IF v.r < 0 \/ h.r < 0 \/ a.r < 0 THEN <<>>
    ELSE IF a.atom = "$gen_call"
    THEN IF from.r < 0 THEN <<>>
         ELSE handle_call(buf, from.index, c, from.pid, from.ref, env).ev
    ELSE IF a.atom = "rex" THEN process_message(buf, 1, c, env).ev
    ELSE <<>>

RECURSIVE raw_messages(_, _, _, _)
raw_messages(starts, msg_idx, c, env) ==
    IF msg_idx > Len(starts) THEN <<>>
    ELSE (IF starts[msg_idx].ctl THEN <<>> ELSE <<Recv(c, starts[msg_idx].buf)>>)
         \o raw_message(starts[msg_idx].buf, c, env)
         \o raw_messages(starts, msg_idx + 1, c, env)

\* read(fd, raw_buf) took every pending frame; the first start is skipped
raw_read(frames, c, env) ==
    LET all == msg_starts(frames)
        starts == SubSeq(all, 1, IF Len(all) < MaxRawMessages THEN Len(all) ELSE MaxRawMessages)
    IN  <<Ev("raw_read", c, "", <<>>, TRUE)>> \o raw_messages(starts, 2, c, env)

\* after a failed ei_accept: leave the loop on EBADF, retry otherwise
accept_retry(errno) == IF errno = EBADF THEN "exit" ELSE "top"

\* pc = "accept": inside ei_accept; pc = "select": asleep in the select() on
\* the listening socket with that socket closed under it
MainAccept ==
    /\ "run" \in Active
    /\ pc \in {"top", "accept"}
    /\ \/ /\ pc = "top"
          /\ listen_fd["run"] < 0
          /\ pc' = "exit"
          /\ UNCHANGED <<fd, conn, wire, log>>
       \/ /\ listen_fd["run"] >= 0 \/ pc = "accept"
          /\ Pending("run") # {}
          /\ ~Stalled("run")
          /\ LET c == NextPending("run") IN
             \E a \in ei_accept(c) :
                /\ fd' = a.fd
                /\ IF accept_failed(a.fd)
                   THEN /\ pc' = accept_retry(a.errno)
                        /\ Commit("run", c, "refused", wire["run"][c], <<>>)
                   ELSE /\ pc' = "recv"
                        /\ Commit("run", c, "open", wire["run"][c], <<Accepted(a.fd)>>)
    /\ UNCHANGED <<mode, menu, faults, codec, life, xbuf, listen_fd, hsOk, nsent, current_fd, initialized,
                   stalled, caller, result, idle>>

\* the branch "res == ERL_ERROR" of main_loop: events before the close
main_error(o, c, env) ==
    IF o.errno \in {ENOPROTOOPT, ETIMEDOUT}
    THEN IF o.x # <<>>
         THEN [ev |-> <<Recv(c, o.x)>> \o process_message(o.x, 1, c, env).ev, rest |-> o.rest]
         ELSE IF o.rest # <<>> /\ Head(o.rest) # Eof
              THEN [ev |-> raw_read(SelectSeq(o.rest, LAMBDA f : f # Eof), c, env),
                    rest |-> <<>>]
              ELSE [ev |-> <<>>, rest |-> o.rest]
    ELSE [ev |-> <<>>, rest |-> o.rest]

MainReceive ==
    /\ "run" \in Active
    /\ pc = "recv"
    /\ \/ /\ Readable("run", fd)
          /\ \E o \in RecvOutcomes(wire["run"][fd]), env \in Envs :
                IF o.res = ERL_TICK
                THEN /\ pc' = "top"
                     /\ xbuf' = xbuf
                     /\ Commit("run", fd, "open", o.rest, <<>>)
                ELSE IF o.res = ERL_ERROR
                THEN \E e \in {main_error(o, fd, env)} :
                        /\ pc' = "top"
                        /\ xbuf' = ei_x_free("run")
                        /\ Commit("run", fd, "closed", e.rest, e.ev \o <<Closed(fd)>>)
                ELSE \E r \in {process_message(o.x, 1, fd, env)} :
                        /\ pc' = "more"
                        /\ xbuf' = ei_x_new("run")
                        /\ Commit("run", fd, "open", o.rest, <<Recv(fd, o.x)>> \o r.ev)
       \/ \* select() timed out after 5 s
          /\ ~Readable("run", fd)
          /\ pc' = "top"
          /\ xbuf' = ei_x_free("run")
          /\ Commit("run", fd, "closed", wire["run"][fd], <<Closed(fd)>>)
       \/ \* select() failed
          /\ faults
          /\ pc' = "top"
          /\ xbuf' = ei_x_free("run")
          /\ Commit("run", fd, "closed", wire["run"][fd], <<Closed(fd)>>)
    /\ UNCHANGED <<mode, menu, faults, codec, life, listen_fd, hsOk, nsent, current_fd, initialized, fd,
                   stalled, caller, result, idle>>

\* "Check if more data is available with a short timeout"
MainMore ==
    /\ "run" \in Active
    /\ pc = "more"
    /\ \/ /\ Readable("run", fd)
          /\ pc' = "top"
          /\ UNCHANGED <<conn, wire, log, xbuf>>
       \/ \* nothing within 100 ms
          /\ ~Readable("run", fd)
          /\ pc' = "top"
          /\ xbuf' = ei_x_free("run")
          /\ Commit("run", fd, "closed", wire["run"][fd], <<Closed(fd)>>)
       \/ \* select() failed
          /\ faults
          /\ pc' = "top"
          /\ xbuf' = ei_x_free("run")
          /\ Commit("run", fd, "closed", wire["run"][fd], <<Closed(fd)>>)
    /\ UNCHANGED <<mode, menu, faults, codec, life, listen_fd, hsOk, nsent, current_fd, initialized, fd,
                   stalled, caller, result, idle>>

\* where the close of the listening socket finds a loop that is at the top:
\* before its test of listen_fd, or past it and asleep in select() (whether
\* a close from another thread wakes select() is left open by the system),
\* or inside ei_accept waiting for a handshake
shutdown_finds(at) ==
    IF at # "top" THEN {at}
    ELSE IF Pending("run") = {} THEN {"top", "select"}
    ELSE IF Stalled("run") THEN {"top", "accept"}
    ELSE {"top"}

\* uninitialize_cnode_module: close the listening socket of the server thread
Uninitialize ==
    /\ "run" \in Active
    /\ listen_fd["run"] >= 0
    /\ listen_fd' = [listen_fd EXCEPT !["run"] = -1]
    /\ pc' \in shutdown_finds(pc)
    /\ UNCHANGED <<mode, menu, faults, codec, life, xbuf, conn, hsOk, wire, nsent, current_fd, initialized,
                   fd, log, stalled, caller, result, idle>>

(* ------------------------- process_cnode_frame ------------------------- *)
\* the branch "res == ERL_ERROR" with a connection: tried is the message the
\* errno-42 fallback handed to process_message, kept when that succeeded
step_tried(o, c, r) ==
    [ev |-> <<Recv(c, o.x)>> \o r.ev, keep |-> r.ret >= 0]

step_error(o, c, env) ==
    IF o.errno = ENOPROTOOPT /\ o.x # <<>>
    THEN step_tried(o, c, process_message(o.x, 1, c, env))
    ELSE [ev |-> <<>>, keep |-> FALSE]

\* "If we have an active connection, try to process messages on it first"
StepActive(ret) ==
    LET c == current_fd IN
    /\ current_fd >= 0
    /\ \/ /\ Readable("step", c)
          /\ idle' = 0
          /\ \E o \in RecvOutcomes(wire["step"][c]), env \in Envs :
                IF o.res = ERL_TICK
                THEN /\ ret = 1
                     /\ current_fd' = current_fd
                     /\ Commit("step", c, "open", o.rest, <<>>)
                ELSE IF o.res = ERL_ERROR
                THEN \E e \in {step_error(o, c, env)} :
                     IF e.keep
                     THEN /\ ret = 0
                          /\ current_fd' = current_fd
                          /\ Commit("step", c, "open", o.rest, e.ev)
                     ELSE /\ ret = 1
                          /\ current_fd' = NoFd
                          /\ Commit("step", c, "closed", o.rest, e.ev \o <<Closed(c)>>)
                ELSE \E r \in {process_message(o.x, 1, c, env)} :
                     IF r.ret < 0
                     THEN /\ ret = -1
                          /\ current_fd' = NoFd
                          /\ Commit("step", c, "closed", o.rest,
                                    <<Recv(c, o.x)>> \o r.ev \o <<Closed(c)>>)
                     ELSE /\ ret = 0
                          /\ current_fd' = current_fd
                          /\ Commit("step", c, "open", o.rest, <<Recv(c, o.x)>> \o r.ev)
       \/ \* select_res == 0: no data, keep the connection for the next frame
          /\ ~Readable("step", c)
          /\ ret = 1
          /\ idle' = IF idle < MaxIdle THEN idle + 1 ELSE idle
          /\ UNCHANGED <<current_fd, conn, wire, log>>
       \/ \* select() error
          /\ faults
          /\ ret = 1
          /\ idle' = 0
          /\ current_fd' = NoFd
          /\ Commit("step", c, "closed", wire["step"][c], <<Closed(c)>>)

\* a faulty variant: the accept path is taken whatever current_fd holds
no_connection_ever(cfd) == TRUE

\* every branch under "if (current_fd >= 0)" returns: the accept path is
\* reached only without a connection
no_connection(cfd) == cfd < 0

\* "No active connection - check for new connections (non-blocking)"
StepAccept(ret) ==
    /\ no_connection(current_fd)
    /\ idle' = 0
    /\ \/ /\ Pending("step") = {}
          /\ ret = 1
          /\ UNCHANGED <<current_fd, conn, wire, log>>
       \/ /\ Pending("step") # {}
          /\ LET c == NextPending("step") IN
             \E a \in ei_accept(c) :
                IF accept_failed(a.fd)
                THEN /\ ret = IF a.errno = EBADF THEN -1 ELSE 1
                     /\ current_fd' = current_fd
                     /\ Commit("step", c, "refused", wire["step"][c], <<>>)
                ELSE \/ \* nothing to read yet (or select() failed): accepted
                        /\ (faults \/ ~Readable("step", c))
                        /\ ret = 0
                        /\ current_fd' = a.fd
                        /\ Commit("step", c, "open", wire["step"][c], <<Accepted(a.fd)>>)
                     \/ \* "Data immediately available - process it"
                        /\ Readable("step", c)
                        /\ \E o \in RecvOutcomes(wire["step"][c]), env \in Envs :
                              IF o.res = ERL_MSG
                              THEN \E r \in {process_message(o.x, 1, a.fd, env)} :
                                   IF r.ret < 0
                                   THEN /\ ret = -1
                                        /\ current_fd' = NoFd
                                        /\ Commit("step", c, "closed", o.rest,
                                                  <<Accepted(a.fd), Recv(a.fd, o.x)>> \o r.ev
                                                  \o <<Closed(a.fd)>>)
                                   ELSE /\ ret = 0
                                        /\ current_fd' = a.fd
                                        /\ Commit("step", c, "open", o.rest,
                                                  <<Accepted(a.fd), Recv(a.fd, o.x)>> \o r.ev)
                              ELSE IF o.res = ERL_TICK
                              THEN /\ ret = 1
                                   /\ current_fd' = a.fd
                                   /\ Commit("step", c, "open", o.rest, <<Accepted(a.fd)>>)
                              ELSE /\ ret = 1
                                   /\ current_fd' = NoFd
                                   /\ Commit("step", c, "closed", o.rest,
                                             <<Accepted(a.fd), Closed(a.fd)>>)

\* one call that runs through to its return value
process_cnode_frame(ret) ==
    /\ IF listen_fd["step"] < 0
       THEN ret = -1 /\ UNCHANGED <<current_fd, conn, wire, log, idle>>
       ELSE StepActive(ret) \/ StepAccept(ret)
    /\ xbuf' = ei_x_new("step")
    /\ result' = ret

\* the call gets as far as ei_accept and the peer it meets there has not
\* sent its handshake: the call does not return before the peer goes on
WaitsInAccept == listen_fd["step"] >= 0 /\ current_fd < 0 /\ Stalled("step")

\* CNodeServer::_process, called by the host on every frame
NodeProcess ==
    /\ "step" \in Active
    /\ caller = "none"
    /\ IF ~initialized \/ listen_fd["step"] < 0
       THEN UNCHANGED <<current_fd, conn, wire, log, initialized, caller, result, idle, xbuf>>
       ELSE IF WaitsInAccept
       THEN /\ caller' = "node"
            /\ xbuf' = ei_x_new("step")
            /\ UNCHANGED <<current_fd, conn, wire, log, initialized, result, idle>>
       ELSE \E ret \in {-1, 0, 1} :
               /\ process_cnode_frame(ret)
               /\ initialized' = IF ret < 0 THEN FALSE ELSE initialized
               /\ caller' = caller
    /\ UNCHANGED <<mode, menu, faults, codec, life, listen_fd, hsOk, nsent, pc, fd, stalled>>

\* process_cnode_frame called by an embedder through the C interface
DirectFrame ==
    /\ "step" \in Active
    /\ caller = "none"
    /\ IF WaitsInAccept
       THEN /\ caller' = "direct"
            /\ xbuf' = ei_x_new("step")
            /\ UNCHANGED <<current_fd, conn, wire, log, result, idle>>
       ELSE \E ret \in {-1, 0, 1} :
               /\ process_cnode_frame(ret)
               /\ caller' = caller
    /\ UNCHANGED <<mode, menu, faults, codec, life, listen_fd, hsOk, nsent, pc, fd, initialized,
                   stalled>>

\* the handshake has arrived: the call that waited in ei_accept goes on
FrameReturns ==
    /\ "step" \in Active
    /\ caller # "none"
    /\ ~WaitsInAccept
    /\ \E ret \in {-1, 0, 1} :
          /\ process_cnode_frame(ret)
          /\ initialized' = IF caller = "node" /\ ret < 0 THEN FALSE ELSE initialized
    /\ caller' = "none"
    /\ UNCHANGED <<mode, menu, faults, codec, life, listen_fd, hsOk, nsent, pc, fd, stalled>>

(* --------------------------- specification ----------------------------- *)
Next ==
    \/ \E c \in Conns, ok \in BOOLEAN, stall \in BOOLEAN : PeerConnect(c, ok, stall)
    \/ \E c \in Conns : PeerHandshake(c)
    \/ \E c \in Conns, f \in menu : PeerSend(c, f)
    \/ \E c \in Conns : PeerClose(c)
    \/ MainAccept
    \/ MainReceive
    \/ MainMore
    \/ Uninitialize
    \/ NodeProcess
    \/ DirectFrame
    \/ FrameReturns

Spec == Init /\ [][Next]_vars

\* both drivers side by side, every peer talking to the two of them alike
InitBoth ==
    mode = "both" /\ menu \in Menus /\ faults = FALSE /\ codec = NoCodec /\ life = NoLife
    /\ InitCommon
SpecBoth == InitBoth /\ [][Next]_vars

(* ------------------------------ the codec ------------------------------ *)
\* the values of the supported types that hold no other value
Scalars ==
    {VNil, VBool(TRUE), VBool(FALSE), VInt(0), VInt(-7), VFloat(3), VString("a"),
     VString("nil"), VVector("VECTOR2", <<1, 2>>), VVector("VECTOR3", <<1, 2, 3>>),
     VVector("COLOR", <<1, 0, 0, 1>>), Variant("OBJECT", "Node", 1, <<>>)}
Arrays == UNION {[1..n -> Scalars] : n \in 0..MaxElems}
\* a Dictionary of one entry, held as key and value in turn
Dictionaries == {<<VString("a"), v>> : v \in Scalars}
\* a value of a supported type is handed to the encoder
Given(v) == codec = [NoCodec EXCEPT !.phase = "value", !.value = v]

\* a string as long as string_buf
LongString == [k |-> "string", s |-> "long", n |-> StringBufSize]
\* the terms a received buffer is made of
Terms == {Ver, Tup(2), Tup(3), List(2), Nil, Atom("vector2"), Atom("godot"), Long(1),
          Flt(1), Str("a"), LongString}
Buffers == UNION {[1..n -> Terms] : n \in 1..MaxTerms}

\* the Request tuples a peer puts into its messages
Requests ==
    {Request2("erlang", "node"),
     Request("erlang", "node", <<Nil>>),
     Request("erlang", "nodes", <<Nil>>),
     Request("erlang", "self", <<Nil>>),
     Request("erlang", "node", <<Tup(2), Atom("point"), Long(1)>>),
     Request("godot", "call_method", <<List(2), Long(1), Str("m"), Nil>>),
     Request("godot", "get_property", <<List(2), Long(1), Str("x"), Nil>>),
     Request("godot", "get_property", <<List(2), Long(9), Str("x"), Nil>>),
     Request("godot", "set_property", <<List(3), Long(1), Str("p"), Long(5), Nil>>),
     Request("godot", "set_property", <<Nil>>),
     Request2("godot", "free"),
     Request2("nomod", "f"),
     <<Long(5)>>,
     <<Tup(2), Atom("godot"), Long(5)>>,
     <<Tup(3), Str("godot"), Atom("call_method"), List(2), Long(1), Str("m"), Nil>>,
     <<Tup(3), Atom("godot"), Str("call_method"), List(2), Long(1), Str("m"), Nil>>,
     <<Tup(3), Str("erlang"), Str("node"), Nil>>}
\* the envelopes process_message tells apart, around one Request
Envelopes(request) ==
    {GenCall("p1", "t1", request),
     GenCast(request),
     Rex("p2", GenCall("p1", "t1", request)),
     RexFrom(Atom("peer@host"), GenCall("p1", "t1", request)),
     Plain(request)}
Messages == UNION {Envelopes(q) : q \in Requests} \cup {RexNotCall, CallBadFrom}
\* the same messages without the leading version marker
Unversioned == {Tail(m) : m \in Messages}

\* what the peer means and how it spells it: the values of an argument list
\* in order, and the Request that carries them
ArgSpellings ==
    {[val |-> VInt(1000), term |-> Long(1000)], [val |-> VString("m"), term |-> Str("m")],
     [val |-> VBool(TRUE), term |-> Atom("true")], [val |-> VFloat(2), term |-> Flt(2)]}
ArgLists == UNION {[1..n -> ArgSpellings] : n \in 0..MaxElems}
\* the list as term_to_binary spells it: the nil tag when it is empty
ListTerms(l) ==
    IF Len(l) = 0 THEN <<Nil>>
    ELSE <<List(Len(l))>> \o [i \in 1..Len(l) |-> l[i].term] \o <<Nil>>
ListValues(l) == [i \in 1..Len(l) |-> l[i].val]
\* a Request is handed to the argument decoding of handle_call
Asked(request, args) ==
    codec = [NoCodec EXCEPT !.phase = "request", !.buf = request, !.value = VArray(args)]

\* the spellings of a number on the wire: the three integer tags, a float
Numbers == {SmallInt(5), Long(1000), Big(2^30), Flt(2)}
\* a proper list of the given terms, its header written out even when empty
ListOf(terms) == <<List(Len(terms))>> \o terms \o <<Nil>>
NumberLists == {ListOf(l) : l \in UNION {[1..n -> Numbers] : n \in 0..MaxElems}}
\* atoms: the three literal spellings, plain names, a name outside ASCII
Atoms ==
    {Atom("true"), Atom("false"), Atom("nil"), Atom("ok"), Atom("caf<E9>"), Atom("<3BB>x")}
\* tuples: the four shapes of the subset and others
Tuples ==
    {<<Tup(3), Atom("vector2"), Flt(1), Flt(2)>>,
     <<Tup(4), Atom("vector3"), Flt(1), Flt(2), Flt(3)>>,
     <<Tup(5), Atom("color"), Flt(1), Flt(0), Flt(0), Flt(1)>>,
     <<Tup(2), Atom("dictionary"), Long(0)>>,
     <<Tup(2), Atom("point"), Long(1)>>,
     <<Tup(2), Atom("ok"), Atom("done")>>,
     <<Tup(3), Atom("vector3"), Flt(1), Flt(2)>>,
     <<Tup(2), Long(1), Long(2)>>,
     <<Tup(3), Atom("vector2"), Flt(1), Long(5)>>,
     <<Tup(4), Atom("vector3"), Long(1), Long(2), Long(3)>>,
     <<Tup(5), Atom("color"), Flt(1), Flt(0), Flt(0), Atom("x")>>,
     <<Tup(2), Atom("dictionary"), Atom("x")>>,
     <<Tup(2), Atom("dictionary"), Str("a")>>}
\* single terms in each of their spellings
Spelled ==
    {<<t>> : t \in Numbers \cup Atoms \cup {Nil}} \cup NumberLists \cup Tuples
       \cup {<<List(1), Nil, Nil>>}

InitCodec ==
    /\ mode = "codec" /\ menu = {} /\ faults = FALSE /\ life = NoLife
    /\ InitCommon
    /\ \/ \E v \in Scalars : Given(v)
       \/ \E a \in Arrays : Given(VArray(a))
       \/ \E d \in Dictionaries : Given(VVector("DICTIONARY", d))
       \/ \E b \in Buffers \cup Messages \cup Unversioned \cup Spelled :
             codec = [NoCodec EXCEPT !.phase = "received", !.buf = b]
       \/ Asked(Request2("godot", "call_method"), <<>>)
       \/ \E l \in ArgLists :
             Asked(Request("godot", "call_method", ListTerms(l)), ListValues(l))

Drivers_unchanged ==
    UNCHANGED <<mode, listen_fd, conn, hsOk, wire, nsent, menu, faults, current_fd,
                initialized, pc, fd, log, stalled, caller, result, idle, xbuf>>

\* variant_to_bert(value, &reply)
Encode ==
    /\ codec.phase = "value"
    /\ codec' = [codec EXCEPT !.phase = "encoded", !.buf = variant_to_bert(codec.value)]
    /\ Drivers_unchanged /\ UNCHANGED life

\* what a call may come back with: a String made from the atom buffer that
\* nothing was written to holds whatever the stack held
Returned(buf, r) ==
    IF r.val = VString(Uninitialized)
    THEN {[r EXCEPT !.val = VString(t)] : t \in StackTexts}
    ELSE IF r.val.type \in {"VECTOR2", "VECTOR3", "COLOR"}
    THEN \* components no ei_decode_double wrote to hold what the stack held
         {[r EXCEPT !.val.a = [i \in DOMAIN r.val.a |->
                                 IF r.val.a[i] = UninitializedNumber THEN g[i]
                                 ELSE r.val.a[i]]] :
             g \in [DOMAIN r.val.a -> StackNumbers]}
    ELSE IF r.val.type = "DICTIONARY" /\ r.val.n = UninitializedNumber
    THEN \* "for (i < dict_size)" with dict_size never written to
         {dictionary_value(decode_members(buf, r.index, 2 * n, <<>>)) : n \in StackNumbers}
    ELSE {r}

\* bert_to_variant(buf, &index, true) on an encoded value or a received buffer
Decode ==
    /\ codec.phase \in {"encoded", "received"}
    /\ \E r \in {bert_to_variant(codec.buf, 1, TRUE)}, t \in {bert_touch(codec.buf, 1, TRUE)} :
       \E out \in Returned(codec.buf, r) :
          codec' = [codec EXCEPT !.phase = IF codec.phase = "encoded" THEN "decoded"
                                           ELSE "parsed",
                                 !.out = out.val, !.index = out.index,
                                 !.reads = t.reads, !.wrote = t.wrote]
    /\ Drivers_unchanged /\ UNCHANGED life

\* what a host method or property may hand back to a call
CodecResults == {VNil, VString("pong"), VArray(<<>>)}

\* process_message(x.buff, &x.index, fd) on a received buffer
Process ==
    /\ codec.phase = "received"
    /\ \E res \in CodecResults :
       \E r \in {process_message(codec.buf, 1, 1, [sendOk |-> TRUE, result |-> res])} :
          codec' = [codec EXCEPT !.phase = "processed", !.ret = r.ret, !.ev = r.ev,
                                 !.reads = process_touch(codec.buf, 1)]
    /\ Drivers_unchanged /\ UNCHANGED life

\* the start of handle_call and handle_cast on a Request: tuple header,
\* Module, Function, then "Decode arguments"
Arguments ==
    /\ codec.phase = "request"
    /\ LET h == ei_decode_tuple_header(codec.buf, 1)
           m == ei_decode_atom(codec.buf, h.index)
           f == ei_decode_atom(codec.buf, m.index)
       IN  codec' = [codec EXCEPT !.phase = "dispatched",
                                  !.out = VArray(decode_args(codec.buf, f.index, h.arity))]
    /\ Drivers_unchanged /\ UNCHANGED life

\* test_cnode.c: process_message(x.buff, &x.index, fd) on the same buffer
TestProcess ==
    /\ codec.phase = "received"
    /\ \E r \in {test_process_message(codec.buf, 1, 1, [sendOk |-> TRUE, result |-> VNil])} :
          codec' = [codec EXCEPT !.phase = "tested", !.ret = r.ret, !.ev = r.ev]
    /\ Drivers_unchanged /\ UNCHANGED life

NextCodec == Encode \/ Decode \/ Process \/ Arguments \/ TestProcess

SpecCodec == InitCodec /\ [][NextCodec]_vars

(* ------------------- the module and its server thread ------------------ *)
\* node names and cookies for a call of init_cnode
Nodenames ==
    {NullString, Text(0), Text(5), NodeAt(5, 9), NodeAt(5, NodenameMax - 6),
     NodeAt(5, NodenameMax - 5), NodeAt(0, EI_MAXHOSTNAMELEN + 1)}
Cookies == {NullString, Text(0), Text(11), Text(MAXATOMLEN), Text(MAXATOMLEN + 1)}

\* nodename_options of the server thread: "godot@127.0.0.1", "godot@localhost"
\* and, when gethostname gives a name not ending in ".local", "godot@<that>"
HostnameOptions == {<<>>, <<NodeAt(5, 8)>>, <<NodeAt(5, 255)>>}
NodenameOptions == {<<NodeAt(5, 9), NodeAt(5, 9)>> \o h : h \in HostnameOptions}
\* cnode_cookie: GODOT_CNODE_COOKIE cut to 255 characters, or "godotcookie"
ModuleCookies == {Text(11), Text(255)}

InitLife ==
    /\ mode = "life" /\ menu = {} /\ faults = FALSE /\ codec = NoCodec
    /\ InitCommon
    /\ \/ \E n \in Nodenames, k \in Cookies :
             life = [NoLife EXCEPT !.phase = "args", !.nodename = n, !.cookie = k]
       \/ \E o \in NodenameOptions, k \in ModuleCookies :
             life = [NoLife EXCEPT !.phase = "module", !.options = o, !.cookie = k]

Life_only == Drivers_unchanged /\ UNCHANGED codec

\* life after a call of init_cnode that answered r
after_init(l, nodename, r) ==
    [l EXCEPT !.call = Call(nodename, l.cookie, l.listen_fd, r),
              !.listen_fd = r.listen_fd,
              !.sock = IF r.sock = "none" THEN l.sock ELSE r.sock]

\* init_cnode(nodename, cookie) called through godot_cnode.h
InitCall ==
    /\ life.phase = "args"
    /\ \E env \in InitEnvs :
       \E r \in {init_cnode(life.nodename, life.cookie, env, life.listen_fd)} :
          life' = [after_init(life, life.nodename, r) EXCEPT !.phase = "called"]
    /\ Life_only

\* initialize_cnode_module at the scene level: start the server thread
Initialize ==
    /\ life.phase = "module" /\ life.main = "boot"
    /\ ~life.cnode_running /\ life.cnode_thread = 0
    /\ \/ life' = [life EXCEPT !.main = "started", !.cnode_thread = 1, !.tpc = "init"]
       \/ \* pthread_create failed
          life' = [life EXCEPT !.main = "started"]
    /\ Life_only

\* cnode_server_thread_impl: one round of "for (i = 0; nodename_options[i]..."
ThreadInit ==
    /\ life.tpc = "init"
    /\ \E env \in InitEnvs :
       \E r \in {init_cnode(life.options[life.i], life.cookie, env, life.listen_fd)} :
          life' = [after_init(life, life.options[life.i], r) EXCEPT
                      !.i = IF r.ret = 0 THEN @ ELSE @ + 1,
                      !.tpc = IF r.ret = 0 THEN "ready"
                              ELSE IF life.i = Len(life.options) THEN "failed" ELSE "init"]
    /\ Life_only

\* "if (!initialized) { cnode_running = false; return nullptr; }"
ThreadGivesUp ==
    /\ life.tpc = "failed"
    /\ life' = [life EXCEPT !.cnode_running = FALSE, !.tpc = "dead"]
    /\ Life_only

\* "cnode_running = true;" and into main_loop
ThreadRuns ==
    /\ life.tpc = "ready"
    /\ life' = [life EXCEPT !.cnode_running = TRUE, !.tpc = "loop"]
    /\ Life_only

\* main_loop: "if (listen_fd < 0)" before the loop and at its top
ThreadCheck ==
    /\ life.tpc = "loop"
    /\ life' = [life EXCEPT !.tpc = IF life.listen_fd < 0 THEN "exited" ELSE "fdset"]
    /\ Life_only

\* what main_loop hands to a call as the listening socket
Passed(to) == [to |-> to, fd |-> life.listen_fd, open |-> life.sock = "open"]

\* "FD_SET(listen_fd, &read_fds);" - with a negative descriptor the macro
\* writes outside read_fds: the loop goes on or the process dies
ThreadFdSet ==
    /\ life.tpc = "fdset"
    /\ \E next \in IF life.listen_fd < 0 THEN {"select", "crashed"} ELSE {"select"} :
          life' = [life EXCEPT !.passed = @ \cup {Passed("FD_SET")}, !.tpc = next]
    /\ Life_only

\* "select(listen_fd + 1, &read_fds, NULL, NULL, NULL);" - no descriptor
\* below nfds = 0 and no timeout: the call never returns
ThreadSelect ==
    /\ life.tpc = "select"
    /\ life' = [life EXCEPT !.passed = @ \cup {Passed("select")},
                            !.tpc = IF life.listen_fd < 0 THEN "asleep" ELSE "isset"]
    /\ Life_only

\* "if (!FD_ISSET(listen_fd, &read_fds)) continue;"
ThreadIsSet ==
    /\ life.tpc = "isset"
    /\ \E next \in {"loop", "accept"} : life' = [life EXCEPT !.tpc = next]
    /\ Life_only

\* "fd = ei_accept(&ec, listen_fd, &con);" - EBADF leaves the loop, anything
\* else comes back to its top once the connection is done with
ThreadAccept ==
    /\ life.tpc = "accept"
    /\ life' = [life EXCEPT !.passed = @ \cup {Passed("ei_accept")},
                            !.tpc = IF life.listen_fd < 0 \/ life.sock # "open"
                                    THEN "exited" ELSE "loop"]
    /\ Life_only

\* main_loop has returned: "cnode_running = false;" and the thread ends
ThreadEnds ==
    /\ life.tpc = "exited"
    /\ life' = [life EXCEPT !.cnode_running = FALSE, !.tpc = "dead"]
    /\ Life_only

\* the server thread has been started and has not ended
ThreadAlive == life.tpc \notin {"none", "dead"}

\* a faulty variant: the thread is stopped whenever there is one
stop_whenever(running, thread) == thread # 0

\* uninitialize_cnode_module: "if (cnode_running && cnode_thread != 0)"
stop_guard(running, thread) == running /\ thread # 0

UninitBegin ==
    /\ life.main = "started"
    /\ life' = [life EXCEPT !.alive = ThreadAlive,
                            !.main = IF stop_guard(life.cnode_running, life.cnode_thread)
                                     THEN "closing" ELSE "stopped"]
    /\ Life_only

\* "if (listen_fd >= 0) { close(listen_fd);"
UninitClose ==
    /\ life.main = "closing"
    /\ life' = IF life.listen_fd >= 0
               THEN [life EXCEPT !.sock = "closed", !.main = "resetting"]
               ELSE [life EXCEPT !.main = "joining"]
    /\ Life_only

\* "listen_fd = -1; }"
UninitReset ==
    /\ life.main = "resetting"
    /\ life' = [life EXCEPT !.listen_fd = -1, !.main = "joining"]
    /\ Life_only

\* "pthread_join(cnode_thread, nullptr); cnode_thread = 0;" and the return
UninitJoin ==
    /\ life.main = "joining"
    /\ life.tpc = "dead"
    /\ life' = [life EXCEPT !.joined = TRUE, !.cnode_thread = 0, !.main = "stopped"]
    /\ Life_only

NextLife ==
    \/ InitCall
    \/ Initialize
    \/ ThreadInit
    \/ ThreadGivesUp
    \/ ThreadRuns
    \/ ThreadCheck
    \/ ThreadFdSet
    \/ ThreadSelect
    \/ ThreadIsSet
    \/ ThreadAccept
    \/ ThreadEnds
    \/ UninitBegin
    \/ UninitClose
    \/ UninitReset
    \/ UninitJoin

SpecLife == InitLife /\ [][NextLife]_vars

(* ---------------------- reading the history ---------------------------- *)
\* where the Tag of a synchronous call stands, 0 when the frame is no call
\* with a decodable {From, Tag}: {'$gen_call', {From, Tag}, Request}, bare
\* or as third element of {rex, Sender, ...}
CallTagAt(buf) ==
    IF Len(buf) >= 6 /\ buf[1] = Ver /\ buf[2].k = "tuple" /\ buf[3] = Atom("$gen_call")
       /\ buf[4] = Tup(2) /\ buf[5].k = "pid" /\ buf[6].k = "ref"
    THEN 6
    ELSE IF Len(buf) >= 9 /\ buf[1] = Ver /\ buf[2].k = "tuple" /\ buf[3] = Atom("rex")
            /\ buf[4].k = "pid" /\ buf[5].k = "tuple" /\ buf[6] = Atom("$gen_call")
            /\ buf[7] = Tup(2) /\ buf[8].k = "pid" /\ buf[9].k = "ref"
    THEN 9
    ELSE 0
IsSyncCall(buf) == CallTagAt(buf) > 0
CallFrom(buf) == buf[CallTagAt(buf) - 1].s
CallTag(buf) == buf[CallTagAt(buf)].s
\* {'$gen_cast', Request}, or a tuple led by an atom that is no marker
IsCastOrPlain(buf) ==
    /\ Len(buf) >= 3 /\ buf[1] = Ver /\ buf[2].k = "tuple" /\ buf[3].k = "atom"
    /\ buf[3].s \notin {"$gen_call", "rex"}

IsRecv(e) == e.op = "recv"
IsReply(e) == e.op = "send_reply"
\* the events a frame read at i caused: up to the next read, accept or close
Boundary(e) == e.op \in {"recv", "raw_read", "accepted", "close"}
SegEnd(L, i) ==
    LET later == {j \in (i + 1)..Len(L) : Boundary(L[j])} IN
    IF later = {} THEN Len(L) + 1 ELSE CHOOSE j \in later : \A k \in later : j <= k
RepliesTo(L, i) == {j \in (i + 1)..(SegEnd(L, i) - 1) : IsReply(L[j])}
\* the reply at j answers the call read at i
Answers(L, j, i) ==
    /\ L[j].fd = L[i].fd
    /\ L[j].to = CallFrom(L[i].buf)
    /\ Len(L[j].buf) >= 3 /\ L[j].buf[1] = Ver /\ L[j].buf[2] = Tup(2)
    /\ L[j].buf[3] = Ref(CallTag(L[i].buf))

(* ------------------------------ C1 .. C3 ------------------------------- *)
\* C1: every synchronous call frame whose {From, Tag} decodes, bare or inside
\* rex, gets send_reply invoked exactly once, whatever path handle_call takes;
\* the reply leads with the call's Tag, goes to From on the same fd, and no
\* other frame is read between the call and its reply.
C1_ReplyExactlyOnce ==
    \A d \in Active : \A i \in DOMAIN log[d] :
        LET L == log[d] IN
        (IsRecv(L[i]) /\ IsSyncCall(L[i].buf)) =>
            /\ Cardinality(RepliesTo(L, i)) = 1
            /\ \A j \in RepliesTo(L, i) : Answers(L, j, i)

\* a call with a malformed Request was read and answered
C1_Witness ==
    \E d \in Active : \E i \in DOMAIN log[d] :
        /\ IsRecv(log[d][i]) /\ log[d][i].buf = CallBadRequest
        /\ RepliesTo(log[d], i) # {}

\* C2: a '$gen_cast' frame or a plain tuple is never answered: nothing is
\* written to the connection between reading it and reading the next frame,
\* whatever the dispatch made of it.
C2_CastNeverAnswered ==
    \A d \in Active : \A i \in DOMAIN log[d] :
        (IsRecv(log[d][i]) /\ IsCastOrPlain(log[d][i].buf)) => RepliesTo(log[d], i) = {}

\* a cast was read and the next frame of its connection was read after it
C2_Witness ==
    \E d \in Active : \E i \in DOMAIN log[d] :
        /\ IsRecv(log[d][i]) /\ IsCastOrPlain(log[d][i].buf)
        /\ \E j \in (i + 1)..Len(log[d]) :
              IsRecv(log[d][j]) /\ log[d][j].fd = log[d][i].fd

Serving(d, c) ==
    IF d = "run" THEN fd = c /\ pc \in {"recv", "more"} ELSE current_fd = c
\* main_loop has read a frame from c and not yet looked for the next
Deciding(d, c) == d = "run" /\ fd = c /\ pc = "more"
\* driver d can still take a connection
Accepting(d) == IF d = "run" THEN pc # "exit" ELSE initialized

\* C4: after a connection has failed (handshake refused, frame not processed,
\* write failed, peer gone) and while the listening socket is open, the
\* driver still accepts: main_loop has not left its loop, and a later call of
\* CNodeServer::_process still reaches process_cnode_frame.
C4_AcceptsAfterFailure ==
    \A d \in Active :
        (listen_fd[d] >= 0 /\ \E c \in Conns : conn[d][c] \in {"closed", "refused"})
            => Accepting(d)

\* C5: main_loop stops reading from an accepted connection only by closing
\* it: a connection that is still open is the one the loop is receiving on.
C5_ReadsUntilClose ==
    "run" \in Active => \A c \in Conns : conn["run"][c] = "open" => Serving("run", c)

\* the replies written to connection c by driver d, in order
Replies(d, c) == SelectSeq(log[d], LAMBDA e : IsReply(e) /\ e.fd = c)
\* driver d has nothing left to do for connection c
Settled(d, c) ==
    \/ conn[d][c] \in {"closed", "refused"}
    \/ conn[d][c] = "open" /\ (wire[d][c] = <<>> \/ ~Serving(d, c)) /\ ~Deciding(d, c)

\* C6: fed the same frames on a connection, main_loop and repeated
\* process_cnode_frame write the same replies and agree on keeping or
\* closing the connection.
C6_DriversAgree ==
    (mode = "both" /\ \A d \in Drivers : listen_fd[d] >= 0 /\ Accepting(d)) =>
        \A c \in Conns :
            (Settled("run", c) /\ Settled("step", c)) =>
                /\ Replies("run", c) = Replies("step", c)
                /\ (conn["run"][c] = "open") <=> (conn["step"][c] = "open")

\* C7: frames are read, dispatched and answered only on a connection that
\* ei_accept returned with fd >= 0; for a peer whose ei_accept failed nothing
\* is read, dispatched or written.
C7_OnlyAcceptedConnections ==
    \A d \in Active :
        /\ \A i \in DOMAIN log[d] :
              LET e == log[d][i] IN
              /\ e.fd \in Conns
              /\ hsOk[e.fd]
              /\ e.op # "accepted" =>
                    \E j \in 1..(i - 1) : log[d][j].op = "accepted" /\ log[d][j].fd = e.fd
        /\ \A c \in Conns :
              conn[d][c] = "refused" => \A i \in DOMAIN log[d] : log[d][i].fd # c

\* a peer that had sent a frame was refused, and nothing was done for it
C7_Witness ==
    \E d \in Active :
        /\ conn[d][1] = "refused" /\ \A c \in Conns \ {1} : conn[d][c] = "none"
        /\ nsent > 0 /\ log[d] = <<>>

\* the frame makes process_message return a negative value
Fails(e) == process_message(e.buf, 1, e.fd, [sendOk |-> TRUE, result |-> VString("pong")]).ret < 0
\* the frame at i was cut out of a raw read(), not handed over by ei_receive_msg
Scanned(L, i) == \E r \in 1..(i - 1) : L[r].op = "raw_read" /\ L[r].fd = L[i].fd
NoLaterRead(L, i) == \A j \in (i + 1)..Len(L) : ~(IsRecv(L[j]) /\ L[j].fd = L[i].fd)

\* C8: once process_message has failed on a frame received by
\* ei_receive_msg, the driver reads no further frame from that connection
\* and has closed it by the time it turns to anything else, in both modes.
C8_ClosesOnFailedFrame ==
    \A d \in Active : \A i \in DOMAIN log[d] :
        LET L == log[d] IN
        (IsRecv(L[i]) /\ ~Scanned(L, i) /\ Fails(L[i])) =>
            /\ NoLaterRead(L, i)
            /\ conn[d][L[i].fd] = "closed" \/ Deciding(d, L[i].fd)

\* C9: once ei_send has failed inside send_reply, no further frame is read
\* from that connection and the driver has closed it by the time it turns
\* to anything else.
C9_ClosesOnFailedWrite ==
    \A d \in Active : \A i \in DOMAIN log[d] :
        LET L == log[d] IN
        (IsReply(L[i]) /\ ~L[i].ok) =>
            /\ NoLaterRead(L, i)
            /\ conn[d][L[i].fd] = "closed" \/ Deciding(d, L[i].fd)

\* frames that are well formed and whose dispatch fails
DispatchFailures == {CallUnknownModule, CallNoObject, CallFewArgs, CastNoObject,
                     PlainUnknownModule}
IsErrorReply(e) ==
    Len(e.buf) >= 5 /\ e.buf[4] = Tup(2) /\ e.buf[5] = Atom("error")
LastReadOn(L, i) == IsRecv(L[i]) /\ NoLaterRead(L, i)

\* C10: a dispatch failure never ends the connection: a call is answered
\* {Tag, {error, Reason}}, a cast is answered nothing, and the frame that
\* follows on the connection is still the driver's to process.
C10_DispatchFailureKeepsConnection ==
    \A d \in Active : \A i \in DOMAIN log[d] :
        LET L == log[d] IN
        (IsRecv(L[i]) /\ L[i].buf \in DispatchFailures) =>
            /\ IF IsSyncCall(L[i].buf)
               THEN \E j \in RepliesTo(L, i) : Answers(L, j, i) /\ IsErrorReply(L[j])
               ELSE RepliesTo(L, i) = {}
            /\ (LastReadOn(L, i) /\ conn[d][L[i].fd] = "open" /\ wire[d][L[i].fd] # <<>>)
                  => Serving(d, L[i].fd)

(* ------------------------------ C11 .. C18 ----------------------------- *)
\* main_loop closes at the first select() that times out; the step driver
\* counts the calls that found its connection silent
IdlePolls(d) == IF d = "step" THEN idle ELSE 0

\* C11: a connection on which nothing arrives is closed within a bounded
\* interval in both modes: no driver is still serving a connection it has
\* found silent MaxIdle times in a row.
C11_IdleConnectionClosed ==
    \A d \in Active : \A c \in Conns :
        (conn[d][c] = "open" /\ Serving(d, c)) => IdlePolls(d) < MaxIdle

\* C12: no call of process_cnode_frame is left waiting for the peer: the
\* host is never held inside a call by a peer that has connected and
\* goes no further.
C12_FrameNeverWaits == caller = "none"

\* the events one step appends to the history of driver d
NewEvents(d) == SubSeq(log'[d], Len(log[d]) + 1, Len(log'[d]))
HasAccept(new) == \E i \in DOMAIN new : new[i].op = "accepted"
Reads(new) == {i \in DOMAIN new : IsRecv(new[i])}

\* C13: one call of process_cnode_frame accepts a connection or receives
\* and processes one frame, never both and never more than one frame.
C13_OneThingPerCall ==
    [][LET new == NewEvents("step") IN
       /\ ~(HasAccept(new) /\ Reads(new) # {})
       /\ Cardinality(Reads(new)) <= 1]_vars

\* a step in which a call of process_cnode_frame returned
FrameCall == log'["step"] # log["step"] \/ result' # result
Processed(new) == \E i \in Reads(new) : ~Fails(new[i])
Erred(new) ==
    \/ \E i \in Reads(new) : Fails(new[i])
    \/ \E i \in DOMAIN new : new[i].op = "close"

\* C14: the value process_cnode_frame returns tells what the call did: 0
\* exactly when it accepted a connection or processed a message with
\* success, 1 only when it accepted nothing and read nothing, -1 only when
\* the listening socket is closed or the call met an error.
C14_ResultReportsCall ==
    [][FrameCall =>
       LET new == NewEvents("step") IN
       /\ (result' = 0) <=> (HasAccept(new) \/ Processed(new))
       /\ (result' = 1) => (~HasAccept(new) /\ Reads(new) = {})
       /\ (result' = -1) => (listen_fd["step"] < 0 \/ Erred(new))]_vars

\* C15: in step mode at most one accepted connection is open at any time,
\* and it is the one current_fd names.
C15_OneConnectionAtATime ==
    "step" \in Active =>
        /\ Cardinality({c \in Conns : conn["step"][c] = "open"}) <= 1
        /\ \A c \in Conns : conn["step"][c] = "open" <=> current_fd = c

\* a second connection was accepted after the first one was closed
C15_Witness ==
    /\ "step" \in Active
    /\ \E c, c2 \in Conns :
          c # c2 /\ conn["step"][c] = "closed" /\ conn["step"][c2] = "open"

\* driver d has stopped: main_loop has left its loop, the node no longer
\* calls process_cnode_frame
Stopped(d) == IF d = "run" THEN pc = "exit" ELSE ~initialized \/ listen_fd[d] < 0

\* C16: an accepted connection that is still open is the one its driver is
\* reading from: none is left open by a driver that has stopped or has gone
\* back to accepting.
C16_AcceptedIsClosed ==
    \A d \in Active : \A c \in Conns :
        conn[d][c] = "open" => (Serving(d, c) /\ ~Stopped(d))

\* a step of the server thread
MainStep == MainAccept \/ MainReceive \/ MainMore

\* C17: once uninitialize_cnode_module has closed the listening socket,
\* main_loop is on its way out: until it has left the loop it always has a
\* step of its own to take, wherever the close found it, so that the join
\* on the server thread returns.
C17_ShutdownTerminates ==
    ("run" \in Active /\ listen_fd["run"] < 0 /\ pc # "exit") => ENABLED MainStep

\* the operations on host objects
HostOps == {"callv", "get", "set"}

\* C18: no operation on a host object is carried out by the server thread
\* that runs main_loop: they all happen in calls the host makes on its main
\* thread.
C18_HostOpsOnMainThread ==
    \A i \in DOMAIN log["run"] : log["run"][i].op \notin HostOps

(* ------------------------------ C19, C20 ------------------------------- *)
\* C19: whatever the received buffer holds, bert_to_variant and
\* process_message read only inside it and write only inside their local
\* buffers, and a decoded value has consumed no more than the buffer holds.
C19_DecodeStaysInBounds ==
    codec.phase \in {"parsed", "processed"} =>
        /\ \A i \in codec.reads : i <= Len(codec.buf)
        /\ codec.wrote <= StringBufSize
        /\ codec.index <= Len(codec.buf) + 1

\* C20: for every value of a supported type, decoding what variant_to_bert
\* wrote for it gives the value back and consumes exactly what was written.
C20_DecodeInvertsEncode ==
    codec.phase = "decoded" =>
        /\ codec.out = codec.value
        /\ codec.index = Len(codec.buf) + 1

(* ------------------------------ C21 .. C26 ----------------------------- *)
\* where the term that starts at i ends: the index past it, 0 when no
\* well-formed term starts there
RECURSIVE term_end(_, _)
RECURSIVE terms_end(_, _, _)
term_end(buf, i) ==
    LET k == KindAt(buf, i) IN
    IF k \in {"atom", "pid", "ref", "int", "small_int", "big", "float", "string", "nil"}
    THEN i + 1
    ELSE IF k = "tuple" THEN terms_end(buf, i + 1, buf[i].n)
    ELSE IF k = "list" THEN terms_end(buf, i + 1, buf[i].n + 1)
    ELSE IF k = "map" THEN terms_end(buf, i + 1, 2 * buf[i].n)
    ELSE 0
\* the index past n terms in a row
terms_end(buf, i, n) ==
    IF i = 0 THEN 0
    ELSE IF n <= 0 THEN i
    ELSE terms_end(buf, term_end(buf, i), n - 1)

\* the buffer is a version marker, then {Tag, Term} and nothing more
OneTaggedTerm(b, tag) ==
    /\ Len(b) >= 4 /\ b[1] = Ver /\ b[2] = Tup(2) /\ b[3] = Ref(tag)
    /\ term_end(b, 4) = Len(b) + 1

\* C21: every reply written for a synchronous call is a version marker and
\* then one 2-tuple: the call's Tag and exactly one well-formed term, with
\* nothing after it, whatever handle_call made of the call.
C21_ReplyIsOneTerm ==
    (codec.phase = "processed" /\ IsSyncCall(codec.buf)) =>
        \A i \in DOMAIN codec.ev :
            IsReply(codec.ev[i]) => OneTaggedTerm(codec.ev[i].buf, CallTag(codec.buf))

\* {rex, Sender, {...}} with a process address in the sender position
IsRex(buf) ==
    /\ Len(buf) >= 6 /\ buf[1] = Ver /\ buf[2].k = "tuple" /\ buf[3] = Atom("rex")
    /\ buf[4].k = "pid" /\ buf[5].k = "tuple"
Replies_of(ev) == {i \in DOMAIN ev : IsReply(ev[i])}

\* C22: a relayed call {rex, Sender, {'$gen_call', {From, Tag}, Request}} is
\* answered to the inner From with the inner Tag and never to Sender; when
\* the inner tuple is not led by '$gen_call' the frame is rejected with -1
\* and nothing is written.
C22_RelayAnswersInnerFrom ==
    (codec.phase = "processed" /\ IsRex(codec.buf)) =>
        IF IsSyncCall(codec.buf)
        THEN /\ Replies_of(codec.ev) # {}
             /\ \A i \in Replies_of(codec.ev) :
                   /\ codec.ev[i].to = CallFrom(codec.buf)
                   /\ codec.ev[i].to # codec.buf[4].s
                   /\ Len(codec.ev[i].buf) >= 3
                   /\ codec.ev[i].buf[3] = Ref(CallTag(codec.buf))
        ELSE (codec.buf[6] # Atom("$gen_call")) =>
                (codec.ret = -1 /\ Replies_of(codec.ev) = {})

\* a relayed call whose sender is not its From was processed and answered
C22_Witness ==
    /\ codec.phase = "processed" /\ IsRex(codec.buf) /\ IsSyncCall(codec.buf)
    /\ codec.buf[4] = Pid("p2") /\ CallFrom(codec.buf) = "p1"
    /\ Replies_of(codec.ev) # {}

\* {rex, Sender, {...}} with an identity atom in the sender position
IsRexFromAtom(buf) ==
    /\ Len(buf) >= 6 /\ buf[1] = Ver /\ buf[2].k = "tuple" /\ buf[3] = Atom("rex")
    /\ buf[4].k = "atom" /\ buf[5].k = "tuple"
\* the same envelope sent by a process
FromPid(buf) == [buf EXCEPT ![4] = Pid("p2")]
\* what process_message makes of a buffer, for one answer of the host
Outcome(buf, res) == process_message(buf, 1, 1, [sendOk |-> TRUE, result |-> res])

\* C23: process_message accepts a rex envelope whose sender position holds
\* an identity atom as it accepts one that holds a process address: the inner
\* call is handled alike in the two cases, same return value, same host
\* operations, same reply.
C23_RelaySenderIsOpaque ==
    (codec.phase = "processed" /\ IsRexFromAtom(codec.buf)) =>
        \E res \in CodecResults :
            /\ codec.ret = Outcome(FromPid(codec.buf), res).ret
            /\ codec.ev = Outcome(FromPid(codec.buf), res).ev

\* a top-level tuple led by an atom that is none of the three markers
IsPlain(buf) ==
    /\ Len(buf) >= 3 /\ buf[1] = Ver /\ buf[2].k = "tuple" /\ buf[3].k = "atom"
    /\ buf[3].s \notin {"$gen_call", "$gen_cast", "rex"}
\* the same Request inside {'$gen_cast', Request}
AsCast(buf) == GenCast(Tail(buf))

\* C24: a top-level tuple led by an atom that is no marker is read again
\* from its header as {Module, Function, Args} and handled by handle_cast:
\* nothing is written back, and return value and host operations are those
\* of the same Request wrapped in '$gen_cast'.
C24_PlainIsCast ==
    (codec.phase = "processed" /\ IsPlain(codec.buf)) =>
        /\ Replies_of(codec.ev) = {}
        /\ \E res \in CodecResults :
              /\ codec.ret = Outcome(AsCast(codec.buf), res).ret
              /\ codec.ev = Outcome(AsCast(codec.buf), res).ev

\* a plain {godot, set_property, Args} was processed and set the property
C24_Witness ==
    /\ codec.phase = "processed" /\ IsPlain(codec.buf)
    /\ codec.buf[3] = Atom("godot") /\ codec.ret = 0
    /\ \E i \in DOMAIN codec.ev : codec.ev[i].op = "set"

\* C25: the dispatcher receives exactly the positional arguments the
\* Request carries, in order: none for a Request of two elements, none for
\* an empty argument list, the n values of a list of n.
C25_ArgumentsAsSent ==
    codec.phase = "dispatched" => codec.out = codec.value

\* where the Request of a call or of a cast starts, 0 for any other buffer
RequestAt(buf) ==
    IF IsSyncCall(buf) THEN CallTagAt(buf) + 1
    ELSE IF Len(buf) >= 3 /\ buf[1] = Ver /\ buf[2].k = "tuple" /\ buf[3] = Atom("$gen_cast")
    THEN 4
    ELSE 0
\* the Request names its Module or its Function with a string
NamedByString(buf) ==
    LET r == RequestAt(buf) IN
    /\ r > 0 /\ Len(buf) >= r + 2 /\ buf[r].k = "tuple"
    /\ {buf[r + 1].k, buf[r + 2].k} \subseteq {"atom", "string"}
    /\ "string" \in {buf[r + 1].k, buf[r + 2].k}
\* the same message with both names as atoms
NamedByAtom(buf) ==
    [buf EXCEPT ![RequestAt(buf) + 1] = Atom(@.s), ![RequestAt(buf) + 2] = Atom(@.s)]

\* C26: Module and Function are accepted as atoms or as strings, and a
\* Request routes alike in the two encodings, in handle_call and in
\* handle_cast: same return value, same host operations, same reply.
C26_NamesAtomOrString ==
    (codec.phase = "processed" /\ NamedByString(codec.buf)) =>
        \E res \in CodecResults :
            /\ codec.ret = Outcome(NamedByAtom(codec.buf), res).ret
            /\ codec.ev = Outcome(NamedByAtom(codec.buf), res).ev

(* ------------------------------ C27 .. C30 ----------------------------- *)
\* the buffer is one spelling of the empty list and nothing else
EmptyListSpelled(buf) == buf = <<Nil>> \/ buf = <<List(0), Nil>>

\* C27: both spellings of the empty list, the list header of arity 0 and
\* the nil tag, decode to an empty Array and never to Null.
C27_EmptyListIsArray ==
    (codec.phase = "parsed" /\ EmptyListSpelled(codec.buf)) =>
        /\ codec.out = VArray(<<>>)
        /\ codec.index = Len(codec.buf) + 1

IsNumber(t) == t.k \in {"small_int", "int", "big", "float"}
NumberValue(t) == IF t.k = "float" THEN VFloat(t.n) ELSE VInt(t.n)
\* a proper list of numbers and nothing else
IsNumberList(buf) ==
    /\ Len(buf) >= 2 /\ buf[1].k = "list" /\ Len(buf) = buf[1].n + 2
    /\ buf[Len(buf)] = Nil
    /\ \A i \in 2..(Len(buf) - 1) : IsNumber(buf[i])

\* C28: an integer under any of the integer tags decodes to an INT of the
\* same value and a float to a FLOAT, each consuming exactly its term, so
\* that the members of a list of numbers come out in order and in full.
C28_NumbersDecode ==
    codec.phase = "parsed" =>
        /\ (Len(codec.buf) = 1 /\ IsNumber(codec.buf[1])) =>
              (codec.out = NumberValue(codec.buf[1]) /\ codec.index = 2)
        /\ IsNumberList(codec.buf) =>
              /\ codec.out = VArray([i \in 1..codec.buf[1].n |-> NumberValue(codec.buf[i + 1])])
              /\ codec.index = Len(codec.buf) + 1

\* what the claim has an atom decode to
AtomValue(text) ==
    IF text = "true" THEN VBool(TRUE)
    ELSE IF text = "false" THEN VBool(FALSE)
    ELSE IF text = "nil" THEN VNil
    ELSE VString(text)

\* C29: the atom 'true' decodes to BOOL true, 'false' to BOOL false, 'nil'
\* to NIL, and every other atom to the STRING that holds the atom's text.
C29_AtomsDecode ==
    (codec.phase = "parsed" /\ Len(codec.buf) = 1 /\ codec.buf[1].k = "atom") =>
        (codec.out = AtomValue(codec.buf[1].s) /\ codec.index = 2)

\* a tuple starts at i that is none of {vector2,_,_}, {vector3,_,_,_},
\* {color,_,_,_,_}, {dictionary, N}
OtherTupleAt(buf, i) ==
    /\ KindAt(buf, i) = "tuple"
    /\ ~ \E shape \in {<<"vector2", 3>>, <<"vector3", 4>>, <<"color", 5>>, <<"dictionary", 2>>} :
            buf[i].n = shape[2] /\ KindAt(buf, i + 1) = "atom" /\ buf[i + 1].s = shape[1]
\* what bert_to_variant returns for a term it has decoded with success: here
\* the atom 'nil'
DecodedNil == bert_to_variant(<<Atom("nil")>>, 1, TRUE).val
\* the Request of the call carries such a tuple as its argument
ArgIsOtherTuple(buf) ==
    LET r == RequestAt(buf) IN
    /\ IsSyncCall(buf) /\ Len(buf) >= r + 3 /\ buf[r].k = "tuple" /\ buf[r].n > 2
    /\ buf[r + 1].k = "atom" /\ buf[r + 2].k = "atom"
    /\ OtherTupleAt(buf, r + 3)

\* C30: for every tuple outside the four shapes bert_to_variant reports an
\* error its caller can tell from a decoded value, and a Request that
\* carries such a tuple as argument is answered with an error instead of
\* being dispatched with it.
C30_OtherTupleIsError ==
    /\ (codec.phase = "parsed" /\ OtherTupleAt(codec.buf, 1)) => codec.out # DecodedNil
    /\ (codec.phase = "processed" /\ ArgIsOtherTuple(codec.buf)) =>
          \A i \in Replies_of(codec.ev) : IsErrorReply(codec.ev[i])

(* ------------------------------ C31 .. C40 ----------------------------- *)
\* C31: process_message classifies and handles a top-level frame alike with
\* and without the leading version marker, and a nested decode
\* (bert_to_variant with skip_version) neither waits for a version marker
\* nor steps over one.
C31_VersionMarkerOptional ==
    /\ (codec.phase = "processed" /\ KindAt(codec.buf, 1) = "tuple") =>
          \E res \in CodecResults :
              /\ codec.ret = Outcome(<<Ver>> \o codec.buf, res).ret
              /\ codec.ev = Outcome(<<Ver>> \o codec.buf, res).ev
    /\ (codec.phase = "parsed" /\ KindAt(codec.buf, 1) = "ver") => codec.index = 1
    /\ (codec.phase = "parsed" /\ KindAt(codec.buf, 1) \in {"int", "float", "string"}) =>
          (codec.index = 2 /\ codec.out.type # "NIL")

\* a call without version marker was processed and answered
C31_Witness ==
    /\ codec.phase = "processed" /\ KindAt(codec.buf, 1) = "tuple"
    /\ codec.ret = 0 /\ Replies_of(codec.ev) # {}

\* what the claims call an unusable node name and an unusable cookie
NameInvalid(n) == n.null \/ strlen(n) = 0 \/ ~n.at \/ strlen(n) > 256
CookieInvalid(k) == k.null \/ strlen(k) = 0 \/ strlen(k) > MAXATOMLEN
Called == life.call # NoCall

\* C32: init_cnode returns -1, having made no call into the ei library and
\* created no socket, and leaves listen_fd as it was, whenever the node name
\* is null, empty, without '@' or longer than 256 characters, or the cookie
\* is null, empty or longer than MAXATOMLEN
C32_InvalidInputsRejected ==
    (Called /\ (NameInvalid(life.call.nodename) \/ CookieInvalid(life.call.cookie))) =>
        /\ life.call.ret = -1
        /\ life.call.calls = <<>>
        /\ life.call.listen_fd = life.call.before

\* a node name with an '@' and one character too many was turned down
C32_Witness ==
    /\ Called
    /\ life.call.nodename.at /\ strlen(life.call.nodename) = 257
    /\ ~CookieInvalid(life.call.cookie)
    /\ life.call.ret = -1 /\ life.call.calls = <<>>

\* C39: when uninitialize_cnode_module has returned and the server thread
\* was started and alive as it began, the listening socket is closed and the
\* thread has been joined - whether or not the thread had set cnode_running
C39_StopClosesAndJoins ==
    (life.main = "stopped" /\ life.alive) => (life.joined /\ life.sock # "open")

\* C40: every value main_loop has handed to FD_SET, select or ei_accept as
\* the listening socket was non-negative and the open socket at that moment
C40_ListenSocketValidWhenUsed ==
    \A p \in life.passed : p.fd >= 0 /\ p.open

RequestFault(buf) ==
    LET rq == CallTagAt(buf) + 1 IN
    IF KindAt(buf, rq) # "tuple" THEN "invalid_request_format"
    ELSE IF buf[rq].n < 2 THEN "invalid_request_format"
    ELSE IF KindAt(buf, rq + 1) # "atom" THEN "invalid_module"
    ELSE IF KindAt(buf, rq + 2) # "atom" THEN "invalid_function"
    ELSE ""
MalformedCall(e) == IsRecv(e) /\ IsSyncCall(e.buf) /\ RequestFault(e.buf) # ""

\* C34: in the step driver a synchronous call with a malformed Request is
\* answered exactly once, with {Tag, {error, Reason}} where Reason names
\* what was wrong, and the connection is closed right after with no further
\* frame read from it
C34_MalformedCallAnsweredAndClosed ==
    "step" \in Active =>
        \A i \in DOMAIN log["step"] :
            LET L == log["step"] IN
            MalformedCall(L[i]) =>
                /\ Cardinality(RepliesTo(L, i)) = 1
                /\ \A j \in RepliesTo(L, i) :
                      /\ L[j].fd = L[i].fd /\ L[j].to = CallFrom(L[i].buf)
                      /\ L[j].buf = <<Ver, Tup(2), Ref(CallTag(L[i].buf)), Tup(2),
                                      Atom("error"), Str(RequestFault(L[i].buf))>>
                /\ SegEnd(L, i) <= Len(L)
                /\ L[SegEnd(L, i)] = Closed(L[i].fd)
                /\ NoLaterRead(L, i)
                /\ conn["step"][L[i].fd] = "closed"

\* a call whose Function is no atom was read by the step driver, which
\* closed the connection
C34_Witness ==
    /\ "step" \in Active
    /\ \E i \in DOMAIN log["step"] :
          MalformedCall(log["step"][i]) /\ RequestFault(log["step"][i].buf) = "invalid_function"
          /\ conn["step"][log["step"][i].fd] = "closed"

\* a tuple at the start of buf that spells a vector2, vector3 or color with
\* a component that is no float, or a dictionary whose count is no integer
ComponentsAt(buf) == [i \in 1..(buf[1].n - 1) |-> KindAt(buf, 2 + i)]
WrongComponents(buf) ==
    /\ KindAt(buf, 1) = "tuple" /\ KindAt(buf, 2) = "atom"
    /\ \/ /\ <<buf[2].s, buf[1].n>> \in {<<"vector2", 3>>, <<"vector3", 4>>, <<"color", 5>>}
          /\ \E i \in 1..(buf[1].n - 1) : ComponentsAt(buf)[i] # "float"
       \/ /\ <<buf[2].s, buf[1].n>> = <<"dictionary", 2>>
          /\ KindAt(buf, 3) \notin {"int", "small_int", "big"}

\* C35: decoding a vector2, vector3 or color tuple with a component that is
\* not a float, or a dictionary tuple whose count is not an integer, gives
\* the error value and never a Vector2, Vector3, Color or Dictionary
C35_WrongTypeIsDecodeError ==
    (codec.phase = "parsed" /\ WrongComponents(codec.buf)) => codec.out = VNil

\* a top-level {Module, Function, Args} led by an atom that is no marker
IsPlainRequest(buf) ==
    IsPlain(buf) /\ buf[2].n = 3 /\ KindAt(buf, 4) = "atom" /\ Len(buf) >= 5

\* C36: the standalone test CNode handles a plain {Module, Function, Args}
\* as a cast: process_message returns 0 and writes nothing, which is what
\* the Godot CNode does with the same frame
C36_TestNodePlainIsCast ==
    (codec.phase = "tested" /\ IsPlainRequest(codec.buf)) =>
        /\ codec.ret = 0
        /\ Replies_of(codec.ev) = {}
        /\ \E res \in CodecResults : codec.ret = Outcome(codec.buf, res).ret

\* main_loop has found data on fd and is about to call ei_receive_msg
AboutToReceive == "run" \in Active /\ pc = "recv" /\ Readable("run", fd)

\* C37: whenever main_loop or process_cnode_frame calls ei_receive_msg or
\* process_message, the receive buffer x is allocated: created by ei_x_new
\* and not freed since
C37_BufferAllocatedWhenUsed ==
    /\ AboutToReceive => xbuf["run"] = "allocated"
    /\ "step" \in Active =>
          /\ xbuf["step"] # "freed"
          /\ log["step"] # <<>> => xbuf["step"] = "allocated"

\* driver d takes a keepalive tick off connection c, which it is serving:
\* the tick leaves the socket and nothing is read, written or closed
TickReceived(d, c) ==
    /\ Serving(d, c) /\ conn[d][c] = "open"
    /\ wire[d][c] # <<>> /\ Head(wire[d][c]) = Tick
    /\ wire'[d][c] = Tail(wire[d][c])
    /\ log'[d] = log[d]
ServingNext(d, c) ==
    IF d = "run" THEN fd' = c /\ pc' \in {"recv", "more"} ELSE current_fd' = c

\* C38: a keepalive tick changes nothing about its connection: after it the
\* connection is open and is still the one the driver serves, so that the
\* next frame on it is received, in the run mode and in the step mode
C38_TickChangesNothing ==
    [][\A d \in Active, c \in Conns :
          TickReceived(d, c) => (conn'[d][c] = "open" /\ ServingNext(d, c))]_vars

====
